---- MODULE Spec2Model ----
(***************************************************************************)
(* A model of CIME's TestScheduler (src/CIME/test_scheduler.py): the       *)
(* constructor's use_existing replay, the single-threaded producer loop,   *)
(* and the worker threads (_consumer) that run one phase of one test.      *)
(***************************************************************************)
EXTENDS Integers, Sequences, FiniteSets, TLC

---------------------------------------------------------------------------
(* Bounds of the model *)

NumTests == 2          \* number of test names given to the scheduler
MaxJobs == 2           \* largest parallel_jobs tried
MaxPool == 2           \* largest proc_pool tried
MaxPes == 3            \* largest TOTALPES of a case
MaxGmakeJ == 2         \* largest GMAKE_J of the machine
MaxCmds == 4           \* most run_cmd outcomes laid out for one command runner
MaxNames == 2          \* longest list of test names translated
LargestGmakeJ == 40    \* largest GMAKE_J the build cost is computed for on its own

Tests == 1..NumTests   \* the keys of self._tests, in insertion order

---------------------------------------------------------------------------
(* Phases and statuses *)

TEST_START == "INIT"
CREATE_NEWCASE_PHASE == "CREATE_NEWCASE"
XML_PHASE == "XML"
SETUP_PHASE == "SETUP"
SHAREDLIB_BUILD_PHASE == "SHAREDLIB_BUILD"
MODEL_BUILD_PHASE == "MODEL_BUILD"
SUBMIT_PHASE == "SUBMIT"
RUN_PHASE == "RUN"

TEST_PASS_STATUS == "PASS"
TEST_PEND_STATUS == "PEND"
TEST_FAIL_STATUS == "FAIL"

PHASES ==
    << TEST_START, CREATE_NEWCASE_PHASE, XML_PHASE, SETUP_PHASE,
       SHAREDLIB_BUILD_PHASE, MODEL_BUILD_PHASE, RUN_PHASE >>

\* the mandatory phases of a TestStatus file, in file order (CIME.test_status)
CORE_PHASES ==
    << CREATE_NEWCASE_PHASE, XML_PHASE, SETUP_PHASE, SHAREDLIB_BUILD_PHASE,
       MODEL_BUILD_PHASE, SUBMIT_PHASE, RUN_PHASE >>

NoRecord == "NONE"     \* a phase without a record in a TestStatus file

None == -1             \* _get_procs_needed's "ineligible" answer

Unset == "None"        \* None for an argument that is a string when given

Range(s) == { s[i] : i \in 1..Len(s) }

\* list.remove(x) for a list that holds x once
Remove(s, x) == SelectSeq(s, LAMBDA y : y # x)

\* list.index(x); the callers below only ask for members of the list
Index(s, x) == CHOOSE i \in 1..Len(s) : s[i] = x

\* min(a, b)
Min(a, b) == IF a <= b THEN a ELSE b

\* the sum of f over the finite set S
RECURSIVE SumOver(_, _)
SumOver(f, S) ==
    IF S = {} THEN 0
    ELSE LET x == CHOOSE y \in S : TRUE IN f[x] + SumOver(f, S \ {x})

---------------------------------------------------------------------------
(* Construction: __init__ *)

\* self._no_build and self._no_run as the constructor derives them
NoBuildFlag(no_build, no_setup, namelists_only) ==
    no_build \/ no_setup \/ namelists_only

\* self._no_run taken from the no_run argument alone
NoRunFlagAlone(no_run, no_build, no_setup, namelists_only) == no_run

NoRunFlag(no_run, no_build, no_setup, namelists_only) ==
    no_run \/ NoBuildFlag(no_build, no_setup, namelists_only)

\* self._phases: PHASES pruned by the flags
ActivePhases(no_setup, no_build, namelists_only, no_run) ==
    LET p1 == IF no_setup THEN Remove(PHASES, SETUP_PHASE) ELSE PHASES
        p2 == IF NoBuildFlag(no_build, no_setup, namelists_only)
              THEN Remove(Remove(p1, SHAREDLIB_BUILD_PHASE), MODEL_BUILD_PHASE)
              ELSE p1
    IN  IF NoRunFlag(no_run, no_build, no_setup, namelists_only)
        THEN Remove(p2, RUN_PHASE)
        ELSE p2

\* a build cost calculated without the limit of 16 cores
InitialModelBuildCostUncapped(calculate_mode_build_cost, gmake_j) ==
    IF calculate_mode_build_cost THEN ((gmake_j * 2) \div 3) + 1 ELSE 4

\* self._model_build_cost at construction
InitialModelBuildCost(calculate_mode_build_cost, gmake_j) ==
    IF calculate_mode_build_cost
    THEN Min(16, ((gmake_j * 2) \div 3) + 1)
    ELSE 4

---------------------------------------------------------------------------
(* State *)

VARIABLES
    phases,                \* self._phases
    no_batch,              \* self._no_batch
    parallel_jobs,         \* self._parallel_jobs
    proc_pool,             \* self._proc_pool
    build_leader,          \* self._build_groups: test -> first test of its group
    total_pes,             \* TOTALPES of each test's case (env_mach_pes.xml)
    use_existing,          \* the constructor's use_existing argument
    serialize_sharedlib_builds, \* Config.serialize_sharedlib_builds
    single_exe,            \* self._single_exe
    b_tests,               \* the tests whose name has the B opt
    nc_tests,              \* the tests whose name has the N opt with C or nuopc
    args,                  \* constructor arguments that are kept in no field above
    calculate_mode_build_cost, \* Config.calculate_mode_build_cost
    gmake_j,               \* the machine's GMAKE_J
    tests,                 \* self._tests: test -> <<phase, status>>
    procs_avail,           \* self._procs_avail
    model_build_cost,      \* self._model_build_cost
    build_group_exeroots,  \* self._build_group_exeroots, keyed by group leader
    exeroot_writes,        \* history: assignments made to each group's exeroot
    store,                 \* the TestStatus file of each test: phase -> status
    status_writes,         \* history: <<test, phase>> of _update_test_status_file calls
    completed_tests,       \* self._completed_tests
    main_pc,               \* where the main thread is
    cursor,                \* the test the main thread's for loop is at
    replay_rec,            \* replay: <<record index, second update pending>>
    work_to_do,            \* _producer's work_to_do
    launched,              \* _producer's num_threads_launched_this_iteration > 0
    threads_in_flight,     \* _producer's threads_in_flight: test -> [procs, phase]
    thread_pc,             \* where each test's worker thread is
    thread_reg,            \* a worker's loaded value of self._completed_tests
    cmd_outcomes,          \* what run_cmd gives on the successive calls of one
                           \* _shell_cmd_for_phase execution
    invocations,           \* the run_cmd calls that execution has made
    cmd_result,            \* what that execution returned, if it has
    test_names,            \* _translate_test_names_for_new_pecount's test_names
    force_args,            \* the force_procs and force_threads it was called with
    force_procs,           \* its force_procs, as the loop has left it
    new_test_names         \* its new_test_names

\* one execution of _shell_cmd_for_phase, followed on its own in RunnerSpec
runner == << cmd_outcomes, invocations, cmd_result >>

\* one call of _translate_test_names_for_new_pecount, followed on its own
\* in TranslateSpec
translator == << test_names, force_args, force_procs, new_test_names >>

\* the configuration: set by the constructor, never changed afterwards (and
\* the command runner's and the translator's variables, which no action of
\* the scheduler changes)
config == << phases, no_batch, parallel_jobs, proc_pool, build_leader,
             total_pes, use_existing, serialize_sharedlib_builds, single_exe,
             b_tests, nc_tests, args, calculate_mode_build_cost, gmake_j,
             runner, translator >>

vars == << phases, no_batch, parallel_jobs, proc_pool, build_leader, total_pes,
           use_existing, serialize_sharedlib_builds, single_exe, b_tests,
           nc_tests, args, calculate_mode_build_cost, gmake_j, tests,
           procs_avail, model_build_cost,
           build_group_exeroots, exeroot_writes, store, status_writes,
           completed_tests, main_pc, cursor, replay_rec, work_to_do, launched,
           threads_in_flight, thread_pc, thread_reg, cmd_outcomes,
           invocations, cmd_result, test_names, force_args, force_procs,
           new_test_names >>

\* the pieces of vars the actions leave alone together
arbiter == << procs_avail, model_build_cost >>
registry == << build_group_exeroots, exeroot_writes >>
files == << store, status_writes >>
mainloc == << main_pc, cursor, replay_rec, work_to_do, launched >>
workers == << thread_pc, thread_reg >>

NoThread == [procs |-> 0, phase |-> "none"]

InFlight == { t \in Tests : threads_in_flight[t] # NoThread }

Leaders == { build_leader[t] : t \in Tests }

---------------------------------------------------------------------------
(* Queries of TestScheduler *)

\* _get_build_group(test)[0]
IsFirstTest(test) == build_leader[test] = test

\* _work_remains without its test of the status: a FAIL test short of the
\* final phase still has work
WorkRemainsIgnoringStatus(data) ==
    data[1] # phases[Len(phases)]

\* _work_remains, for the <<phase, status>> found in self._tests
WorkRemainsFor(data) ==
    /\ data[2] \in {TEST_PASS_STATUS, TEST_PEND_STATUS}
    /\ data[1] # phases[Len(phases)]

WorkRemains(test) == WorkRemainsFor(tests[test])

\* a _get_test_status that answers PEND for every phase but the current one
GetTestStatusCurrentOnly(test, phase) ==
    IF phase = tests[test][1]
    THEN tests[test][2]
    ELSE TEST_PEND_STATUS

\* _get_test_status(test, phase)
GetTestStatus(test, phase) ==
    IF phase = tests[test][1]
    THEN tests[test][2]
    ELSE IF Index(phases, phase) > Index(phases, tests[test][1])
         THEN TEST_PEND_STATUS      \* assume all future phases are PEND
         ELSE TEST_PASS_STATUS      \* assume all older phases PASSed

\* the expects of _update_test_status: TRUE when the update is accepted
UpdateAllowed(test, phase, status) ==
    /\ phase \in Range(phases)
    /\ IF tests[test][1] = phase
       THEN tests[test][2] = TEST_PEND_STATUS /\ status # TEST_PEND_STATUS
       ELSE /\ tests[test][2] = TEST_PASS_STATUS
            /\ status = TEST_PEND_STATUS
            /\ Index(phases, tests[test][1]) = Index(phases, phase) - 1

\* _update_test_status storing TEST_PASS_STATUS whatever status it was given
UpdatedTestsAlwaysPass(test, phase, status) ==
    [tests EXCEPT ![test] = << phase, TEST_PASS_STATUS >>]

\* _update_test_status's assignment
UpdatedTests(test, phase, status) ==
    [tests EXCEPT ![test] = << phase, status >>]

\* a scan of threads_in_flight that finds no running SHAREDLIB_BUILD
SharedlibNeverInFlight == FALSE

\* the serialize_sharedlib_builds scan of threads_in_flight
SharedlibInFlight ==
    \E t \in InFlight : threads_in_flight[t].phase = SHAREDLIB_BUILD_PHASE

\* _get_procs_needed without the wait for the leader: a follower's
\* build-group phase always costs one core
FollowerGateOpen(test, phase) == 1

\* the gate of _get_procs_needed for a follower's build-group phases
FollowerGate(test, phase) ==
    IF GetTestStatus(build_leader[test], phase) = TEST_PEND_STATUS
    THEN None
    ELSE 1

\* _get_procs_needed charging every build one core: MODEL_BUILD costs what
\* the other phases cost
GetProcsNeededFlatBuild(test, phase) ==
    IF /\ ~IsFirstTest(test)
       /\ phase \in {XML_PHASE, SHAREDLIB_BUILD_PHASE, MODEL_BUILD_PHASE}
    THEN FollowerGate(test, phase)
    ELSE IF phase = RUN_PHASE /\ no_batch THEN total_pes[test]
    ELSE IF phase = SHAREDLIB_BUILD_PHASE
         THEN IF serialize_sharedlib_builds /\ SharedlibInFlight THEN None ELSE 1
    ELSE 1

\* _get_procs_needed charging RUN one core with and without a batch system
GetProcsNeededRunOne(test, phase) ==
    IF /\ ~IsFirstTest(test)
       /\ phase \in {XML_PHASE, SHAREDLIB_BUILD_PHASE, MODEL_BUILD_PHASE}
    THEN FollowerGate(test, phase)
    ELSE IF phase = SHAREDLIB_BUILD_PHASE
         THEN IF serialize_sharedlib_builds /\ SharedlibInFlight THEN None ELSE 1
    ELSE IF phase = MODEL_BUILD_PHASE THEN model_build_cost
    ELSE 1

\* _get_procs_needed(test, phase, threads_in_flight)
GetProcsNeeded(test, phase) ==
    IF /\ ~IsFirstTest(test)
       /\ phase \in {XML_PHASE, SHAREDLIB_BUILD_PHASE, MODEL_BUILD_PHASE}
    THEN FollowerGate(test, phase)
    ELSE IF phase = RUN_PHASE /\ no_batch THEN total_pes[test]
    ELSE IF phase = SHAREDLIB_BUILD_PHASE
         THEN IF serialize_sharedlib_builds /\ SharedlibInFlight THEN None ELSE 1
    ELSE IF phase = MODEL_BUILD_PHASE THEN model_build_cost
    ELSE 1

\* the phase _producer_indv_test_launch would launch for test
NextPhase(test) == phases[Index(phases, tests[test][1]) + 1]

\* TestStatus.set_status on one test's file
SetStatus(st, test, phase, status) ==
    [st EXCEPT ![test] = [@ EXCEPT ![phase] = status]]

---------------------------------------------------------------------------
(* The constructor's use_existing replay, __init__ lines 428-464 *)

\* the main thread moves on to the next test of the replay, or to run_tests
ReplayNextTest ==
    /\ replay_rec' = << 1, FALSE >>
    /\ IF cursor = NumTests
       THEN main_pc' = "loop" /\ cursor' = 1
       ELSE main_pc' = "replay" /\ cursor' = cursor + 1

\* the for loop over the records leaving out the last record of the file
ReplayNextRecordShort ==
    IF replay_rec[1] >= Len(CORE_PHASES) - 1
    THEN ReplayNextTest
    ELSE /\ replay_rec' = << replay_rec[1] + 1, FALSE >>
         /\ UNCHANGED << main_pc, cursor >>

\* the main thread moves on to the next record of the test, if any
ReplayNextRecord ==
    IF replay_rec[1] = Len(CORE_PHASES)
    THEN ReplayNextTest
    ELSE /\ replay_rec' = << replay_rec[1] + 1, FALSE >>
         /\ UNCHANGED << main_pc, cursor >>

\* the TestStatus file of the test at cursor as the for loop over its records
\* reads it: under force_rebuild SHAREDLIB_BUILD was set to PEND before the
\* loop
ReplayFileAlwaysPremarked ==
    IF replay_rec = << 1, FALSE >>
    THEN SetStatus(store, cursor, SHAREDLIB_BUILD_PHASE, TEST_PEND_STATUS)
    ELSE store

ReplayFile ==
    IF args.force_rebuild /\ replay_rec = << 1, FALSE >>
    THEN SetStatus(store, cursor, SHAREDLIB_BUILD_PHASE, TEST_PEND_STATUS)
    ELSE store

\* one record (phase, status) of the for loop over the TestStatus file; a
\* PASS record gets as far as the first of its two _update_test_status calls
ReplayRecord ==
    /\ main_pc = "replay"
    /\ ~replay_rec[2]
    /\ LET phase == CORE_PHASES[replay_rec[1]]
           status == ReplayFile[cursor][phase]
       IN  IF status = NoRecord \/ (status = TEST_PASS_STATUS /\ phase = SUBMIT_PHASE)
           THEN ReplayNextRecord /\ tests' = tests /\ store' = ReplayFile
           ELSE IF status \in {TEST_PEND_STATUS, TEST_FAIL_STATUS}
           THEN /\ store' = SetStatus(ReplayFile, cursor, phase, TEST_PEND_STATUS)
                /\ ReplayNextTest
                /\ UNCHANGED tests
           ELSE IF UpdateAllowed(cursor, phase, TEST_PEND_STATUS)
           THEN /\ tests' = UpdatedTests(cursor, phase, TEST_PEND_STATUS)
                /\ replay_rec' = << replay_rec[1], TRUE >>
                /\ store' = ReplayFile
                /\ UNCHANGED << main_pc, cursor >>
           ELSE /\ main_pc' = "ctor_failed"
                /\ store' = ReplayFile
                /\ UNCHANGED << cursor, replay_rec, tests >>
    /\ UNCHANGED << config, arbiter, registry, status_writes, completed_tests,
                    work_to_do, launched, threads_in_flight, workers >>

\* the second _update_test_status call for a PASS record
ReplayPass ==
    /\ main_pc = "replay"
    /\ replay_rec[2]
    /\ LET phase == CORE_PHASES[replay_rec[1]]
           status == store[cursor][phase]
       IN  IF UpdateAllowed(cursor, phase, status)
           THEN tests' = UpdatedTests(cursor, phase, status) /\ ReplayNextRecord
           ELSE /\ main_pc' = "ctor_failed"
                /\ UNCHANGED << cursor, replay_rec, tests >>
    /\ UNCHANGED << config, arbiter, registry, files, completed_tests,
                    work_to_do, launched, threads_in_flight, workers >>

---------------------------------------------------------------------------
(* The producer: _producer and _producer_indv_test_launch *)

\* what the for loop of _producer does after the body for the test at cursor:
\* go to the next test, or finish the iteration of the while loop
LoopContinue(brk, wtd, lnch) ==
    /\ replay_rec' = replay_rec
    /\ IF cursor < NumTests /\ ~brk
       THEN /\ main_pc' = "loop"
            /\ cursor' = cursor + 1
            /\ work_to_do' = wtd
            /\ launched' = lnch
       ELSE /\ cursor' = 1
            /\ work_to_do' = FALSE
            /\ launched' = FALSE
            /\ main_pc' = IF ~wtd THEN "join" ELSE IF ~lnch THEN "wait" ELSE "loop"

\* the exception of a failed expect leaves _producer and run_tests
Raise ==
    /\ main_pc' = "aborted"
    /\ UNCHANGED << cursor, replay_rec, work_to_do, launched >>

\* the for loop of _producer without its break on
\* len(threads_in_flight) == self._parallel_jobs
ConsideredWithoutSlotCheck ==
    /\ main_pc = "loop"
    /\ WorkRemains(cursor)
    /\ cursor \notin InFlight

\* a for loop that calls _producer_indv_test_launch whether or not the test
\* at cursor is in threads_in_flight
ConsideredInFlightToo ==
    /\ main_pc = "loop"
    /\ WorkRemains(cursor)
    /\ Cardinality(InFlight) # parallel_jobs

\* the for loop of _producer calls _producer_indv_test_launch for the test
\* at cursor
Considered ==
    /\ main_pc = "loop"
    /\ WorkRemains(cursor)
    /\ Cardinality(InFlight) # parallel_jobs
    /\ cursor \notin InFlight

\* _producer_indv_test_launch comparing the cost with self._proc_pool only
CanLaunchIgnoringAvail(procs_needed) ==
    /\ procs_needed # None
    /\ procs_needed <= proc_pool

\* the branch of _producer_indv_test_launch that starts a worker
CanLaunch(procs_needed) ==
    /\ procs_needed # None
    /\ procs_needed <= proc_pool
    /\ procs_needed <= procs_avail

\* a for loop that may pass over the test at cursor whatever its state
ProducerSkipAny ==
    /\ main_pc = "loop"
    /\ Cardinality(InFlight) # parallel_jobs
    /\ LoopContinue(FALSE, work_to_do \/ WorkRemains(cursor), launched)
    /\ UNCHANGED << config, tests, arbiter, registry, files, completed_tests,
                    threads_in_flight, workers >>

\* for loop body: nothing is launched for the test at cursor (no work remains,
\* it is in flight, it is ineligible, or there are not enough free procs)
ProducerSkip ==
    /\ main_pc = "loop"
    /\ \/ ~WorkRemains(cursor)
       \/ /\ WorkRemains(cursor)
          /\ Cardinality(InFlight) # parallel_jobs
          /\ \/ cursor \in InFlight
             \/ /\ cursor \notin InFlight
                /\ tests[cursor][2] # TEST_PEND_STATUS
                /\ LET procs_needed == GetProcsNeeded(cursor, NextPhase(cursor))
                   IN  \/ procs_needed = None
                       \/ procs_needed <= proc_pool /\ ~CanLaunch(procs_needed)
    /\ LoopContinue(FALSE, work_to_do \/ WorkRemains(cursor), launched)
    /\ UNCHANGED << config, tests, arbiter, registry, files, completed_tests,
                    threads_in_flight, workers >>

\* for loop body: no worker slot is free, break out of the for loop
ProducerBreak ==
    /\ main_pc = "loop"
    /\ WorkRemains(cursor)
    /\ Cardinality(InFlight) = parallel_jobs
    /\ LoopContinue(TRUE, TRUE, launched)
    /\ UNCHANGED << config, tests, arbiter, registry, files, completed_tests,
                    threads_in_flight, workers >>

\* _producer_indv_test_launch starts a worker thread for the next phase
ProducerLaunch ==
    /\ Considered
    /\ tests[cursor][2] # TEST_PEND_STATUS
    /\ LET next_phase == NextPhase(cursor)
           procs_needed == GetProcsNeeded(cursor, next_phase)
       IN  /\ CanLaunch(procs_needed)
           /\ procs_avail' = procs_avail - procs_needed
           /\ IF UpdateAllowed(cursor, next_phase, TEST_PEND_STATUS)
              THEN /\ tests' = UpdatedTests(cursor, next_phase, TEST_PEND_STATUS)
                   /\ threads_in_flight' =
                        [threads_in_flight EXCEPT
                            ![cursor] = [procs |-> procs_needed, phase |-> next_phase]]
                   /\ thread_pc' = [thread_pc EXCEPT ![cursor] = "run"]
                   /\ LoopContinue(FALSE, TRUE, TRUE)
              ELSE Raise /\ UNCHANGED << tests, threads_in_flight, thread_pc >>
    /\ UNCHANGED << config, model_build_cost, registry, files, completed_tests,
                    thread_reg >>

\* the records of a RUN failed by the scheduler, without the SUBMIT record
FailedRunFileRunOnly(test) ==
    SetStatus(store, test, RUN_PHASE, TEST_FAIL_STATUS)

\* "CIME phase won't be run, so we need to update TEST_STATUS ourselves"
FailedRunFile(test) ==
    SetStatus(SetStatus(store, test, SUBMIT_PHASE, TEST_PASS_STATUS),
              test, RUN_PHASE, TEST_FAIL_STATUS)

\* _producer_indv_test_launch, a RUN that asks for more than the whole pool:
\* the two status file writes and the first _update_test_status call
ProducerFailRun ==
    /\ Considered
    /\ tests[cursor][2] # TEST_PEND_STATUS
    /\ LET next_phase == NextPhase(cursor)
           procs_needed == GetProcsNeeded(cursor, next_phase)
       IN  /\ procs_needed # None
           /\ procs_needed > proc_pool
           /\ next_phase = RUN_PHASE
           /\ store' = FailedRunFile(cursor)
           /\ status_writes' = status_writes \cup
                                 { << cursor, SUBMIT_PHASE >>, << cursor, RUN_PHASE >> }
           /\ IF UpdateAllowed(cursor, next_phase, TEST_PEND_STATUS)
              THEN /\ tests' = UpdatedTests(cursor, next_phase, TEST_PEND_STATUS)
                   /\ main_pc' = "failrun"
                   /\ UNCHANGED << cursor, replay_rec, work_to_do, launched >>
              ELSE Raise /\ UNCHANGED tests
    /\ UNCHANGED << config, arbiter, registry, completed_tests,
                    threads_in_flight, workers >>

\* ... and the second _update_test_status call; the launch counts as done
ProducerFailRunDone ==
    /\ main_pc = "failrun"
    /\ IF UpdateAllowed(cursor, RUN_PHASE, TEST_FAIL_STATUS)
       THEN /\ tests' = UpdatedTests(cursor, RUN_PHASE, TEST_FAIL_STATUS)
            /\ LoopContinue(FALSE, TRUE, TRUE)
       ELSE Raise /\ UNCHANGED tests
    /\ UNCHANGED << config, arbiter, registry, files, completed_tests,
                    threads_in_flight, workers >>

\* an expect of _producer_indv_test_launch fails: the test is PEND, or a
\* phase other than RUN asks for more than the whole pool
ProducerAbort ==
    /\ Considered
    /\ \/ tests[cursor][2] = TEST_PEND_STATUS
       \/ /\ tests[cursor][2] # TEST_PEND_STATUS
          /\ LET next_phase == NextPhase(cursor)
                 procs_needed == GetProcsNeeded(cursor, next_phase)
             IN  /\ procs_needed # None
                 /\ procs_needed > proc_pool
                 /\ next_phase # RUN_PHASE
    /\ Raise
    /\ UNCHANGED << config, tests, arbiter, registry, files, completed_tests,
                    threads_in_flight, workers >>

\* _wait_for_something_to_finish giving back one core for each finished
\* test, whatever it had reserved
ReleasedOneEach(finished_tests) == Cardinality(finished_tests)

\* a _wait_for_something_to_finish that deletes the entries of the finished
\* tests and gives nothing back
ReleasedNothing(finished_tests) == 0

\* what _wait_for_something_to_finish gives back to self._procs_avail
Released(finished_tests) ==
    SumOver([t \in Tests |->
                IF t \in finished_tests THEN threads_in_flight[t].procs ELSE 0],
            Tests)

\* _wait_for_something_to_finish, once some thread in flight is not alive
ProducerWait ==
    /\ main_pc = "wait"
    /\ IF Cardinality(InFlight) > parallel_jobs
       THEN Raise /\ UNCHANGED << procs_avail, threads_in_flight, thread_pc >>
       ELSE LET finished_tests == { t \in InFlight : thread_pc[t] = "dead" }
            IN  /\ finished_tests # {}
                /\ procs_avail' = procs_avail + Released(finished_tests)
                /\ threads_in_flight' =
                     [t \in Tests |->
                        IF t \in finished_tests THEN NoThread ELSE threads_in_flight[t]]
                /\ thread_pc' =
                     [t \in Tests |->
                        IF t \in finished_tests THEN "none" ELSE thread_pc[t]]
                /\ main_pc' = "loop"
                /\ UNCHANGED << cursor, replay_rec, work_to_do, launched >>
    /\ UNCHANGED << config, tests, model_build_cost, registry, files,
                    completed_tests, thread_reg >>

\* a _producer that returns after the while loop without joining
ProducerReturnsUnjoined ==
    /\ main_pc = "join"
    /\ main_pc' = "done"
    /\ UNCHANGED << config, tests, arbiter, registry, files, completed_tests,
                    cursor, replay_rec, work_to_do, launched, threads_in_flight,
                    workers >>

\* the joins after the while loop, once every thread in flight has finished
ProducerJoin ==
    /\ main_pc = "join"
    /\ \A t \in InFlight : thread_pc[t] = "dead"
    /\ main_pc' = "done"
    /\ UNCHANGED << config, tests, arbiter, registry, files, completed_tests,
                    cursor, replay_rec, work_to_do, launched, threads_in_flight,
                    workers >>

---------------------------------------------------------------------------
(* The phase methods, run by a worker through _run_catch_exceptions.  Each  *)
(* gives the set of its possible outcomes: ok is the success flag returned *)
(* (FALSE also when an exception was caught), st, wr, exe, nwr and mbc are  *)
(* the status files, their write history, the exeroot map, its write       *)
(* history and self._model_build_cost as the method leaves them.          *)

Outcome(ok, st, wr, exe, nwr, mbc) ==
    [ok |-> ok, st |-> st, wr |-> wr, exe |-> exe, nwr |-> nwr, mbc |-> mbc]

\* an outcome that changed nothing in the scheduler
Plain(ok, st) ==
    Outcome(ok, st, status_writes, build_group_exeroots, exeroot_writes,
            model_build_cost)

\* the record the external command of a phase leaves in the TestStatus file
ExternalStatus(test, phase, ok) ==
    SetStatus(store, test, phase,
              IF ok THEN TEST_PASS_STATUS ELSE TEST_FAIL_STATUS)

\* _shell_cmd_for_phase for a command that may succeed or fail
ShellCmdForPhase(test, phase) ==
    { Plain(ok, ExternalStatus(test, phase, ok)) : ok \in BOOLEAN }

\* _create_newcase_phase without the expects on the N opt
CreateNewcasePhaseUnchecked(test) ==
    { Plain(ok, store) : ok \in BOOLEAN }

\* _create_newcase_phase (the scheduler writes its status afterwards): the
\* expects on the N opt raise before create_newcase is called
CreateNewcasePhase(test) ==
    IF test \in nc_tests
    THEN { Plain(FALSE, store) }
    ELSE { Plain(ok, store) : ok \in BOOLEAN }

\* a build cost set to the size of the pool whatever it was
ScaledBuildCostToPool == proc_pool

\* "Scale back build parallelism on systems with few cores"
ScaledBuildCost ==
    IF model_build_cost > proc_pool THEN proc_pool ELSE model_build_cost

\* the exeroot handling of _xml_phase: the leader records its EXEROOT, a
\* follower takes the one recorded; FALSE when the expect there fails
ExerootReady(test) ==
    IF IsFirstTest(test)
    THEN build_group_exeroots[test] = "unset"
    ELSE build_group_exeroots[build_leader[test]] # "unset"

\* _xml_phase: an exception before the Case block, a failed exeroot expect,
\* or the whole block done, after which closing the Case can still fail
XmlPhase(test) ==
    { Plain(FALSE, store) } \cup
    IF ~ExerootReady(test)
    THEN { Plain(FALSE, store) }
    ELSE { Outcome(ok, store, status_writes,
                   IF IsFirstTest(test)
                   THEN [build_group_exeroots EXCEPT ![test] = "set"]
                   ELSE build_group_exeroots,
                   IF IsFirstTest(test)
                   THEN [exeroot_writes EXCEPT ![test] = @ + 1]
                   ELSE exeroot_writes,
                   ScaledBuildCost) : ok \in BOOLEAN }

\* _setup_phase: case.setup, and under single_exe the support_single_exe
\* check, whose exception marks SETUP as FAIL before it is raised again
SetupPhase(test) ==
    ShellCmdForPhase(test, SETUP_PHASE) \cup
    IF single_exe
    THEN { Outcome(FALSE, SetStatus(store, test, SETUP_PHASE, TEST_FAIL_STATUS),
                   status_writes \cup { << test, SETUP_PHASE >> },
                   build_group_exeroots, exeroot_writes, model_build_cost) }
    ELSE {}

\* what a follower's build phase returns: it reuses the leader's build
FollowerBuildOk(test, phase) ==
    GetTestStatus(build_leader[test], phase) = TEST_PASS_STATUS

\* a _sharedlib_build_phase that marks SETUP as FAIL on a fatal exit code of
\* case.cmpgen_namelists and then returns what case.build gave
SharedlibBuildPhaseNoRaise(test) ==
    IF ~IsFirstTest(test)
    THEN { Plain(FollowerBuildOk(test, SHAREDLIB_BUILD_PHASE), store) }
    ELSE ShellCmdForPhase(test, SHAREDLIB_BUILD_PHASE) \cup
         { Outcome(ok,
                   SetStatus(ExternalStatus(test, SHAREDLIB_BUILD_PHASE, ok),
                             test, SETUP_PHASE, TEST_FAIL_STATUS),
                   status_writes \cup { << test, SETUP_PHASE >> },
                   build_group_exeroots, exeroot_writes, model_build_cost)
           : ok \in BOOLEAN }

\* _sharedlib_build_phase: a follower reuses the leader's build; the leader
\* runs case.build --sharedlib-only and then case.cmpgen_namelists, whose
\* fatal exit code marks SETUP as FAIL and raises
SharedlibBuildPhase(test) ==
    IF ~IsFirstTest(test)
    THEN { Plain(FollowerBuildOk(test, SHAREDLIB_BUILD_PHASE), store) }
    ELSE ShellCmdForPhase(test, SHAREDLIB_BUILD_PHASE) \cup
         { Outcome(FALSE,
                   SetStatus(ExternalStatus(test, SHAREDLIB_BUILD_PHASE, ok),
                             test, SETUP_PHASE, TEST_FAIL_STATUS),
                   status_writes \cup { << test, SETUP_PHASE >> },
                   build_group_exeroots, exeroot_writes, model_build_cost)
           : ok \in BOOLEAN }

\* _model_build_phase: a follower calls post_build (which may raise) when
\* the leader's build passed; the leader runs case.build --model-only
ModelBuildPhase(test) ==
    IF ~IsFirstTest(test)
    THEN IF FollowerBuildOk(test, MODEL_BUILD_PHASE)
         THEN { Plain(ok, store) : ok \in BOOLEAN }
         ELSE { Plain(FALSE, store) }
    ELSE ShellCmdForPhase(test, MODEL_BUILD_PHASE)

\* the records case.submit leaves: SUBMIT, and RUN once submitted (the run
\* itself is over when case.submit --no-batch returns)
SubmitStatus(test, ok) ==
    IF ok
    THEN SetStatus(SetStatus(store, test, SUBMIT_PHASE, TEST_PASS_STATUS),
                   test, RUN_PHASE,
                   IF no_batch THEN TEST_PASS_STATUS ELSE TEST_PEND_STATUS)
    ELSE SetStatus(store, test, SUBMIT_PHASE, TEST_FAIL_STATUS)

\* _run_phase calling case.submit for every test
RunPhaseAlwaysSubmits(test) ==
    { Plain(ok, SubmitStatus(test, ok)) : ok \in BOOLEAN }

\* _run_phase: skipped for a test with the B opt, else case.submit
RunPhase(test) ==
    IF test \in b_tests
    THEN { Outcome(TRUE,
                   SetStatus(SetStatus(store, test, SUBMIT_PHASE, TEST_PASS_STATUS),
                             test, RUN_PHASE, TEST_PASS_STATUS),
                   status_writes \cup
                       { << test, SUBMIT_PHASE >>, << test, RUN_PHASE >> },
                   build_group_exeroots, exeroot_writes, model_build_cost) }
    ELSE { Plain(ok, SubmitStatus(test, ok)) : ok \in BOOLEAN }

\* getattr(self, "_{phase}_phase")
PhaseMethod(test, phase) ==
    CASE phase = CREATE_NEWCASE_PHASE -> CreateNewcasePhase(test)
      [] phase = XML_PHASE -> XmlPhase(test)
      [] phase = SETUP_PHASE -> SetupPhase(test)
      [] phase = SHAREDLIB_BUILD_PHASE -> SharedlibBuildPhase(test)
      [] phase = MODEL_BUILD_PHASE -> ModelBuildPhase(test)
      [] phase = RUN_PHASE -> RunPhase(test)

---------------------------------------------------------------------------
(* The worker: _consumer *)

\* the test_phase argument of the _consumer call a live worker is in: the
\* phase of its test, which only this worker changes while it is in flight
ThreadPhase(test) == tests[test][1]

\* a status that does not look at the phase method's success flag
ConsumerStatusOfSuccess(phase, success) ==
    IF phase = RUN_PHASE /\ ~no_batch THEN TEST_PEND_STATUS ELSE TEST_PASS_STATUS

\* a status that is PASS for every success, a RUN handed to the batch
\* system included
ConsumerStatusNeverPend(phase, success) ==
    IF success THEN TEST_PASS_STATUS ELSE TEST_FAIL_STATUS

\* a status that, on a batch system, leaves a successful MODEL_BUILD at PEND
\* as it does a successful RUN
ConsumerStatusPendAfterBuild(phase, success) ==
    IF success
    THEN IF phase \in {MODEL_BUILD_PHASE, RUN_PHASE} /\ ~no_batch
         THEN TEST_PEND_STATUS
         ELSE TEST_PASS_STATUS
    ELSE TEST_FAIL_STATUS

\* the status _consumer computes from the phase method's success flag
ConsumerStatus(phase, success) ==
    IF success
    THEN IF phase = RUN_PHASE /\ ~no_batch THEN TEST_PEND_STATUS ELSE TEST_PASS_STATUS
    ELSE TEST_FAIL_STATUS

\* _consumer writing the TestStatus record of every phase it has run
SchedulerOwnedAlways(test, phase) == phase \in Range(PHASES)

\* the phases whose TestStatus record _consumer writes itself
SchedulerOwned(test, phase) ==
    \/ phase \in {CREATE_NEWCASE_PHASE, XML_PHASE}
    \/ ~IsFirstTest(test) /\ phase \in {SHAREDLIB_BUILD_PHASE, MODEL_BUILD_PHASE}

\* a chaining rule that does not look at self._no_batch
ChainsWithoutBatch(phase, success) ==
    /\ success
    /\ RUN_PHASE \in Range(phases)
    /\ phase = MODEL_BUILD_PHASE

\* _consumer chains into RUN after a successful MODEL_BUILD on batch systems
Chains(phase, success) ==
    /\ success
    /\ RUN_PHASE \in Range(phases)      \* not self._no_run
    /\ ~no_batch
    /\ phase = MODEL_BUILD_PHASE

\* _run_catch_exceptions(test, test_phase, phase_method)
WorkerPhase(test) ==
    /\ thread_pc[test] = "run"
    /\ \E o \in PhaseMethod(test, ThreadPhase(test)) :
          /\ thread_pc' = [thread_pc EXCEPT
                             ![test] = IF o.ok THEN "post_ok" ELSE "post_fail"]
          /\ store' = o.st
          /\ status_writes' = o.wr
          /\ build_group_exeroots' = o.exe
          /\ exeroot_writes' = o.nwr
          /\ model_build_cost' = o.mbc
    /\ UNCHANGED << config, tests, procs_avail, completed_tests, mainloc,
                    threads_in_flight, thread_reg >>

\* _consumer after the phase method: _update_test_status (an exception of
\* its expects ends the thread), then _work_remains and the load of
\* self._completed_tests for the increment
WorkerUpdate(test) ==
    /\ thread_pc[test] \in {"post_ok", "post_fail"}
    /\ LET phase == ThreadPhase(test)
           status == ConsumerStatus(phase, thread_pc[test] = "post_ok")
       IN  IF status = TEST_PEND_STATUS
           THEN /\ tests' = tests
                /\ thread_pc' = [thread_pc EXCEPT ![test] = "tail"]
           ELSE IF UpdateAllowed(test, phase, status)
           THEN /\ tests' = UpdatedTests(test, phase, status)
                /\ thread_pc' = [thread_pc EXCEPT ![test] = "tail"]
           ELSE /\ tests' = tests
                /\ thread_pc' = [thread_pc EXCEPT ![test] = "dead"]
    /\ thread_reg' = [thread_reg EXCEPT
                        ![test] = IF thread_pc'[test] = "tail" /\ ~WorkRemainsFor(tests'[test])
                                  THEN << completed_tests >>
                                  ELSE << >>]
    /\ UNCHANGED << config, arbiter, registry, files, completed_tests, mainloc,
                    threads_in_flight >>

\* the rest of _consumer: the store of the incremented self._completed_tests,
\* the TestStatus record of a scheduler-owned phase, and either the chained
\* RUN (its _update_test_status call) or the end of the thread
WorkerTail(test) ==
    /\ thread_pc[test] = "tail"
    /\ LET phase == ThreadPhase(test)
           status == tests[test][2]
           success == status # TEST_FAIL_STATUS
       IN  /\ completed_tests' = IF thread_reg[test] # << >>
                                 THEN thread_reg[test][1] + 1
                                 ELSE completed_tests
           /\ IF SchedulerOwned(test, phase)
              THEN /\ store' = SetStatus(store, test, phase, status)
                   /\ status_writes' = status_writes \cup { << test, phase >> }
              ELSE UNCHANGED files
           /\ IF Chains(phase, success) /\ UpdateAllowed(test, RUN_PHASE, TEST_PEND_STATUS)
              THEN /\ tests' = UpdatedTests(test, RUN_PHASE, TEST_PEND_STATUS)
                   /\ thread_pc' = [thread_pc EXCEPT ![test] = "run"]
              ELSE /\ tests' = tests
                   /\ thread_pc' = [thread_pc EXCEPT ![test] = "dead"]
    /\ thread_reg' = [thread_reg EXCEPT ![test] = << >>]
    /\ UNCHANGED << config, arbiter, registry, mainloc, threads_in_flight >>

---------------------------------------------------------------------------
(* The state after construction (before the replay, under use_existing) *)

\* build groups as get_build_groups / single_exe / singletons give them:
\* every group is led by its first test in insertion order
BuildGroupings ==
    { f \in [Tests -> Tests] : \A t \in Tests : f[t] <= t /\ f[f[t]] = f[t] }

EmptyStatusFile == [p \in Range(CORE_PHASES) |-> NoRecord]

\* a TestStatus file an earlier run left behind: the first passed core
\* phases PASS, then at most one record that is PEND or FAIL
OldStatusFile(passed, last) ==
    [p \in Range(CORE_PHASES) |->
        IF Index(CORE_PHASES, p) <= passed THEN TEST_PASS_STATUS
        ELSE IF Index(CORE_PHASES, p) = passed + 1 THEN last
        ELSE NoRecord]

OldStatusFiles ==
    { OldStatusFile(n, last) :
        n \in 0..Len(CORE_PHASES), last \in {NoRecord, TEST_PEND_STATUS, TEST_FAIL_STATUS} }

\* the expects of the constructor on its arguments: a queue asked for
\* without a batch system, a baseline comparison directory that is missing
CtorExpectFails(c) ==
    \/ c.no_batch /\ c.queue
    \/ c.baseline_cmp_missing

\* the constructor's arguments, the machine's and the cases' values c and
\* the status files found, and the fields the constructor sets from them
\* whatever the build cost is
ConstructedFrom(c, status_files) ==
    /\ phases = ActivePhases(c.no_setup, c.no_build, c.namelists_only, c.no_run)
    /\ no_batch = c.no_batch
    /\ parallel_jobs = c.parallel_jobs
    /\ proc_pool = c.proc_pool
    /\ build_leader = c.build_leader
    /\ total_pes = c.total_pes
    /\ use_existing = c.use_existing
    /\ serialize_sharedlib_builds = c.serialize_sharedlib_builds
    /\ single_exe = c.single_exe
    /\ b_tests = c.b_tests
    /\ nc_tests = c.nc_tests
    /\ args = [no_setup |-> c.no_setup, no_build |-> c.no_build,
               namelists_only |-> c.namelists_only, no_run |-> c.no_run,
               force_rebuild |-> c.force_rebuild, queue |-> c.queue,
               baseline_cmp_missing |-> c.baseline_cmp_missing]
    /\ calculate_mode_build_cost = c.calculate_mode_build_cost
    /\ gmake_j = c.gmake_j
    /\ tests = [t \in Tests |-> << TEST_START, TEST_PASS_STATUS >>]
    /\ procs_avail = c.proc_pool
    /\ build_group_exeroots = [t \in Tests |-> "unset"]
    /\ exeroot_writes = [t \in Tests |-> 0]
    /\ store = status_files
    /\ status_writes = {}
    /\ completed_tests = 0
    /\ cursor = 1
    /\ replay_rec = << 1, FALSE >>
    /\ work_to_do = FALSE
    /\ launched = FALSE
    /\ threads_in_flight = [t \in Tests |-> NoThread]
    /\ thread_pc = [t \in Tests |-> "none"]
    /\ thread_reg = [t \in Tests |-> << >>]

\* the fields of a constructed scheduler
ConstructFields(c, status_files) ==
    /\ ConstructedFrom(c, status_files)
    /\ model_build_cost = InitialModelBuildCost(c.calculate_mode_build_cost, c.gmake_j)
    /\ main_pc = IF CtorExpectFails(c) THEN "ctor_failed"
                 ELSE IF c.use_existing THEN "replay" ELSE "loop"

\* no call of _translate_test_names_for_new_pecount is followed
NoTranslation ==
    /\ test_names = << >>
    /\ force_args = [force_procs |-> Unset, force_threads |-> Unset]
    /\ force_procs = Unset
    /\ new_test_names = << >>

\* ... with no execution of _shell_cmd_for_phase singled out
Construct(c, status_files) ==
    /\ ConstructFields(c, status_files)
    /\ cmd_outcomes = << >>
    /\ invocations = 0
    /\ cmd_result = "idle"
    /\ NoTranslation

\* the constructor's arguments and the values it reads, with their defaults
Defaults ==
    [no_setup |-> FALSE, no_build |-> FALSE, namelists_only |-> FALSE,
     no_run |-> FALSE, no_batch |-> FALSE, parallel_jobs |-> MaxJobs,
     proc_pool |-> MaxPool, build_leader |-> [t \in Tests |-> t],
     total_pes |-> [t \in Tests |-> 1], use_existing |-> FALSE,
     serialize_sharedlib_builds |-> FALSE, single_exe |-> FALSE, b_tests |-> {},
     calculate_mode_build_cost |-> FALSE, gmake_j |-> 1, nc_tests |-> {},
     force_rebuild |-> FALSE, queue |-> FALSE, baseline_cmp_missing |-> FALSE]

\* fresh runs with all the concurrency the bounds allow, on a batch system,
\* for every build grouping
FreshConfigs ==
    { [Defaults EXCEPT !.build_leader = bl] : bl \in BuildGroupings }

\* one group of all the tests (single_exe's grouping), or only singletons
PlainGroupings == { [t \in Tests |-> 1], [t \in Tests |-> t] }

\* fresh runs with two worker slots and without a batch system: RUN is
\* charged TOTALPES, which for the first test is more than the whole pool
\* and for the others two cores
NoBatchConfigs ==
    { [Defaults EXCEPT !.no_batch = TRUE, !.parallel_jobs = 2,
                       !.build_leader = bl,
                       !.total_pes = [t \in Tests |-> IF t = 1 THEN MaxPes ELSE 2]]
      : bl \in PlainGroupings }

\* fresh runs with a single worker slot, for every pruning of the phases,
\* pool size and build cost (GMAKE_J is read only to calculate the cost)
SerialConfigs ==
    { [Defaults EXCEPT !.parallel_jobs = 1, !.proc_pool = pp, !.no_batch = f[1],
                       !.no_setup = f[2], !.no_build = f[3],
                       !.namelists_only = f[4], !.no_run = f[5],
                       !.calculate_mode_build_cost = f[6],
                       !.gmake_j = IF f[6] THEN j ELSE 1]
      : pp \in 1..MaxPool, j \in 1..MaxGmakeJ,
        f \in { << FALSE, FALSE, FALSE, FALSE, FALSE, TRUE >>,
                << TRUE, FALSE, FALSE, FALSE, FALSE, TRUE >>,
                << FALSE, TRUE, FALSE, FALSE, FALSE, FALSE >>,
                << FALSE, FALSE, TRUE, FALSE, FALSE, FALSE >>,
                << FALSE, FALSE, FALSE, TRUE, FALSE, FALSE >>,
                << FALSE, FALSE, FALSE, FALSE, TRUE, FALSE >> } }

\* runs over the test directories of an earlier run
ExistingConfigs ==
    { [Defaults EXCEPT !.use_existing = TRUE, !.parallel_jobs = 1,
                       !.no_batch = nb, !.build_leader = bl,
                       !.total_pes = [t \in Tests |-> MaxPes]]
      : nb \in BOOLEAN, bl \in PlainGroupings }

\* fresh runs with a single worker slot for every value of the flags
\* no_setup, no_build, namelists_only and no_run
FlagConfigs ==
    { [Defaults EXCEPT !.parallel_jobs = 1, !.no_setup = f[1], !.no_build = f[2],
                       !.namelists_only = f[3], !.no_run = f[4]]
      : f \in [1..4 -> BOOLEAN] }

\* fresh runs in which the first test has the B opt and the last one an N opt
\* that create_newcase refuses, with and without a batch system
OptConfigs ==
    { [Defaults EXCEPT !.parallel_jobs = 1, !.no_batch = nb, !.build_leader = bl,
                       !.b_tests = {1}, !.nc_tests = {NumTests}]
      : nb \in BOOLEAN, bl \in PlainGroupings }

\* a fresh single_exe run: one build group of all the tests
SingleExeConfigs ==
    { [Defaults EXCEPT !.parallel_jobs = 1, !.single_exe = TRUE,
                       !.build_leader = [t \in Tests |-> 1]] }

\* constructions that an expect of the constructor refuses
RefusedConfigs ==
    { [Defaults EXCEPT !.no_batch = TRUE, !.queue = TRUE],
      [Defaults EXCEPT !.baseline_cmp_missing = TRUE] }

\* runs with force_rebuild over the test directories of an earlier run whose
\* tests got as far as XML, MODEL_BUILD or the end, with a build cost below
\* or above the pool
RebuildConfigs ==
    { [Defaults EXCEPT !.use_existing = TRUE, !.force_rebuild = TRUE,
                       !.parallel_jobs = 1, !.build_leader = bl,
                       !.calculate_mode_build_cost = calc]
      : bl \in PlainGroupings, calc \in BOOLEAN }

RebuildStops == { 2, Len(CORE_PHASES) - 2, Len(CORE_PHASES) }

\* a run with two worker slots over the test directories of an earlier run
\* that was stopped when the first test had done nothing and the other
\* tests, each a build group of its own, had built their shared libs
HalfBuiltConfigs ==
    { [Defaults EXCEPT !.use_existing = TRUE, !.parallel_jobs = 2] }

HalfBuiltStatusFiles ==
    [t \in Tests |->
        IF t = 1 THEN EmptyStatusFile
        ELSE OldStatusFile(Index(CORE_PHASES, SHAREDLIB_BUILD_PHASE), NoRecord)]

\* fresh runs with two worker slots on a machine whose configuration
\* serializes the sharedlib builds
SerializedBuildConfigs ==
    { [Defaults EXCEPT !.serialize_sharedlib_builds = TRUE, !.parallel_jobs = 2,
                       !.build_leader = bl]
      : bl \in PlainGroupings }

\* how many records the earlier run left in each test's file: any number
\* for the first two tests, and for the tests after them as many as for the
\* second
ExistingStops ==
    { n \in [Tests -> 0..Len(CORE_PHASES)] : \A t \in Tests : t > 2 => n[t] = n[2] }

Init ==
    \/ \E c \in FreshConfigs \cup NoBatchConfigs \cup SerialConfigs \cup FlagConfigs
                \cup OptConfigs \cup SingleExeConfigs \cup RefusedConfigs
                \cup SerializedBuildConfigs :
          Construct(c, [t \in Tests |-> EmptyStatusFile])
    \/ \E c \in RebuildConfigs, n \in [Tests -> RebuildStops] :
          Construct(c, [t \in Tests |-> OldStatusFile(n[t], NoRecord)])
    \/ \E c \in HalfBuiltConfigs : Construct(c, HalfBuiltStatusFiles)
    \/ \E c \in ExistingConfigs, n \in ExistingStops,
          last \in {NoRecord, TEST_PEND_STATUS, TEST_FAIL_STATUS} :
          Construct(c, [t \in Tests |-> OldStatusFile(n[t], last)])

Next ==
    \/ ReplayRecord
    \/ ReplayPass
    \/ ProducerSkip
    \/ ProducerBreak
    \/ ProducerLaunch
    \/ ProducerFailRun
    \/ ProducerFailRunDone
    \/ ProducerAbort
    \/ ProducerWait
    \/ ProducerJoin
    \/ \E t \in Tests : WorkerPhase(t)
    \/ \E t \in Tests : WorkerUpdate(t)
    \/ \E t \in Tests : WorkerTail(t)

Spec == Init /\ [][Next]_vars

---------------------------------------------------------------------------
(* One execution of _shell_cmd_for_phase on its own: the while loop around *)
(* run_cmd, for every sequence of outcomes the command can give.           *)

\* what one run_cmd call can come back with: rc = 0, rc # 0, and rc # 0 with
\* "bad interpreter" in the output
CMD_OK == "ok"
CMD_FAILED == "failed"
CMD_BAD_INTERPRETER == "bad interpreter"

CmdOutcomes == { CMD_OK, CMD_FAILED, CMD_BAD_INTERPRETER }

\* the sequences of outcomes tried: no longer than MaxCmds
OutcomeSeqs == UNION { [1..n -> CmdOutcomes] : n \in 1..MaxCmds }

\* everything but the command runner's variables
scheduler == << phases, no_batch, parallel_jobs, proc_pool, build_leader,
                total_pes, use_existing, serialize_sharedlib_builds, single_exe,
                b_tests, nc_tests, args, calculate_mode_build_cost, gmake_j,
                tests, procs_avail, model_build_cost,
                build_group_exeroots, exeroot_writes, store, status_writes,
                completed_tests, main_pc, cursor, replay_rec, work_to_do,
                launched, threads_in_flight, thread_pc, thread_reg >>

\* _shell_cmd_for_phase is entered
RunnerInit ==
    /\ ConstructFields(Defaults, [t \in Tests |-> EmptyStatusFile])
    /\ cmd_outcomes \in OutcomeSeqs
    /\ invocations = 0
    /\ cmd_result = "running"
    /\ NoTranslation

\* one pass of the while loop: run_cmd is called and gives the next outcome
RunCmd(outcome, result) ==
    /\ cmd_result = "running"
    /\ invocations < Len(cmd_outcomes)
    /\ cmd_outcomes[invocations + 1] = outcome
    /\ invocations' = invocations + 1
    /\ cmd_result' = result
    /\ UNCHANGED << scheduler, cmd_outcomes, translator >>

\* rc = 0: return True
CmdPasses == RunCmd(CMD_OK, "True")

\* rc # 0 without "bad interpreter" in the output: return False
CmdFails == RunCmd(CMD_FAILED, "False")

\* rc # 0 with "bad interpreter" in the output: sleep and continue
CmdRetried == RunCmd(CMD_BAD_INTERPRETER, "running")

RunnerNext ==
    \/ CmdPasses
    \/ CmdFails
    \/ CmdRetried

RunnerSpec == RunnerInit /\ [][RunnerNext]_vars

---------------------------------------------------------------------------
(* One call of _translate_test_names_for_new_pecount on its own. A test    *)
(* name is the sequence of its testcase and its case opts (the grid,       *)
(* compset and the other parts, which the function hands through, are left *)
(* out); a case opt is the sequence of its pieces, P4x2 being              *)
(* << "P", "4", "x", "2" >>.                                               *)

\* CIME.utils.parse_test_name: the testcase and the case opts, None when the
\* name has no opts
ParseTestName(test_name) ==
    [testcase |-> Head(test_name),
     caseopts |-> IF Len(test_name) = 1 THEN Unset ELSE Tail(test_name)]

\* CIME.utils.get_full_test_name
GetFullTestName(testcase, caseopts) == << testcase >> \o caseopts

\* "P{}".format(procs) or "P{}x{}".format(procs, thrds)
PecountOpt(procs, thrds) ==
    IF thrds = Unset THEN << "P", procs >> ELSE << "P", procs, "x", thrds >>

\* caseopt.startswith("P")
IsPecountOpt(caseopt) == Head(caseopt) = "P"

\* caseopt[1:] and its split at "x": the old procs and threads
OldPecount(caseopt) ==
    LET rest == Tail(caseopt)
    IN  IF \E i \in 1..Len(rest) : rest[i] = "x"
        THEN [procs |-> rest[1], thrds |-> rest[3]]
        ELSE [procs |-> rest[1], thrds |-> Unset]

\* the case opts tried, and the names made of a testcase and up to two of them
CaseOpts == { << "P", "4" >>, << "P", "4", "x", "2" >>, << "N", "2" >> }

TestNames ==
    { << "ERS" >> \o opts : opts \in UNION { [1..n -> CaseOpts] : n \in 0..2 } }

\* the function is entered
TranslateInit ==
    /\ ConstructFields(Defaults, [t \in Tests |-> EmptyStatusFile])
    /\ cmd_outcomes = << >>
    /\ invocations = 0
    /\ cmd_result = "idle"
    /\ test_names \in UNION { [1..n -> TestNames] : n \in 1..MaxNames }
    /\ force_args \in [force_procs : {Unset, "16"}, force_threads : {Unset, "2"}]
    /\ force_procs = force_args.force_procs
    /\ new_test_names = << >>

\* the name the for loop is at
NameAt == test_names[Len(new_test_names) + 1]

\* the first case opt that starts with P, 0 when there is none
FirstPecount(caseopts) ==
    IF caseopts = Unset \/ \A i \in 1..Len(caseopts) : ~IsPecountOpt(caseopts[i])
    THEN 0
    ELSE CHOOSE i \in 1..Len(caseopts) :
            /\ IsPecountOpt(caseopts[i])
            /\ \A j \in 1..(i - 1) : ~IsPecountOpt(caseopts[j])

\* one pass of the for loop for a name with a P opt: the opt is rewritten
TranslateRewrites ==
    /\ Len(new_test_names) < Len(test_names)
    /\ LET parsed == ParseTestName(NameAt)
           idx == FirstPecount(parsed.caseopts)
       IN  /\ idx # 0
           /\ LET old == OldPecount(parsed.caseopts[idx])
                  new_procs == IF force_procs # Unset THEN force_procs ELSE old.procs
                  new_thrds == IF force_args.force_threads # Unset
                               THEN force_args.force_threads ELSE old.thrds
              IN  new_test_names' =
                    Append(new_test_names,
                           GetFullTestName(parsed.testcase,
                               [parsed.caseopts EXCEPT
                                   ![idx] = PecountOpt(new_procs, new_thrds)]))
    /\ UNCHANGED << scheduler, runner, test_names, force_args, force_procs >>

\* one pass of the for loop for a name without a P opt: one is appended,
\* after force_procs has been given its default
TranslateAppends ==
    /\ Len(new_test_names) < Len(test_names)
    /\ LET parsed == ParseTestName(NameAt)
       IN  /\ FirstPecount(parsed.caseopts) = 0
           /\ force_procs' = IF force_procs = Unset THEN "M" ELSE force_procs
           /\ LET newcaseopt == PecountOpt(force_procs', force_args.force_threads)
              IN  new_test_names' =
                    Append(new_test_names,
                           GetFullTestName(parsed.testcase,
                               IF parsed.caseopts = Unset
                               THEN << newcaseopt >>
                               ELSE Append(parsed.caseopts, newcaseopt)))
    /\ UNCHANGED << scheduler, runner, test_names, force_args >>

TranslateNext ==
    \/ TranslateRewrites
    \/ TranslateAppends

TranslateSpec == TranslateInit /\ [][TranslateNext]_vars

---------------------------------------------------------------------------
(* The constructor's computation of self._model_build_cost, on its own: the *)
(* machine's GMAKE_J and Config.calculate_mode_build_cost are known, the    *)
(* cost is not assigned yet                                                *)

BuildCostConfigs ==
    { [Defaults EXCEPT !.calculate_mode_build_cost = calc, !.gmake_j = j]
      : calc \in BOOLEAN, j \in 1..LargestGmakeJ }

BuildCostInit ==
    /\ \E c \in BuildCostConfigs :
          ConstructedFrom(c, [t \in Tests |-> EmptyStatusFile])
    /\ model_build_cost = 0
    /\ main_pc = "ctor"
    /\ cmd_outcomes = << >>
    /\ invocations = 0
    /\ cmd_result = "idle"
    /\ NoTranslation

\* the if statement that assigns self._model_build_cost
ComputeBuildCost ==
    /\ main_pc = "ctor"
    /\ model_build_cost' = InitialModelBuildCost(calculate_mode_build_cost, gmake_j)
    /\ main_pc' = "ctor_cost_set"
    /\ UNCHANGED << config, tests, procs_avail, registry, files, completed_tests,
                    cursor, replay_rec, work_to_do, launched, threads_in_flight,
                    workers >>

BuildCostNext == ComputeBuildCost

BuildCostSpec == BuildCostInit /\ [][BuildCostNext]_vars

---------------------------------------------------------------------------
(* Vocabulary of the properties *)

Followers == { t \in Tests : ~IsFirstTest(t) }

GatedPhases == { XML_PHASE, SHAREDLIB_BUILD_PHASE, MODEL_BUILD_PHASE }

\* the cores reserved by the entries of threads_in_flight
Reserved == SumOver([t \in Tests |-> threads_in_flight[t].procs], Tests)

\* a worker thread exists for the test and has not finished
Alive(t) == thread_pc[t] \in {"run", "post_ok", "post_fail", "tail"}

\* this step starts a worker thread for test t
Launches(t) == thread_pc[t] = "none" /\ thread_pc'[t] = "run"

\* run_tests is over: _producer returned or raised, and no worker is alive
Quiescent ==
    /\ main_pc \in {"done", "aborted"}
    /\ \A t \in Tests : ~Alive(t)

PhaseIdx(p) == Index(phases, p)

---------------------------------------------------------------------------
(* C1: in every reachable state the available-core counter self._procs_avail
   is >= 0. *)
C1_ProcsAvailNonNegative == procs_avail >= 0

\* C1's case: a launch has debited every core that was available
C1_Witness ==
    /\ procs_avail = 0
    /\ \E t \in InFlight : threads_in_flight[t].procs = proc_pool /\ Alive(t)

(* C2: at all times the number of entries of the in-flight map is at most
   parallel_jobs, also when more tests are ready than there are slots. *)
C2_InFlightWithinSlots == Cardinality(InFlight) <= parallel_jobs

\* C2's case: every slot is taken while another test is ready to be
\* launched and has to wait
C2_Witness ==
    /\ Cardinality(InFlight) = parallel_jobs
    /\ parallel_jobs < NumTests
    /\ \E t \in Tests \ InFlight :
          WorkRemains(t) /\ tests[t][2] = TEST_PASS_STATUS

(* C3: every change of a test's in-memory <<phase, status>>, in the replay of
   the constructor and in the run, is a legal step: to the immediate
   successor phase, from PASS to PEND; or on the same phase, from PEND to a
   status that is not PEND. *)
C3_LegalWalk ==
    [][ \A t \in Tests :
          \/ tests'[t] = tests[t]
          \/ /\ tests'[t][1] # tests[t][1]
             /\ tests[t][2] = TEST_PASS_STATUS
             /\ tests'[t][2] = TEST_PEND_STATUS
             /\ PhaseIdx(tests'[t][1]) = PhaseIdx(tests[t][1]) + 1
          \/ /\ tests'[t][1] = tests[t][1]
             /\ tests[t][2] = TEST_PEND_STATUS
             /\ tests'[t][2] # TEST_PEND_STATUS ]_vars

\* C3's case: a test was advanced past XML by the replay, without a worker
\* running its XML phase, and then walked on to the end of the phase list
C3_Witness ==
    /\ use_existing
    /\ main_pc = "done"
    /\ \E t \in Tests :
          /\ IsFirstTest(t)
          /\ tests[t] = << RUN_PHASE, TEST_PASS_STATUS >>
          /\ exeroot_writes[t] = 0

(* C4: a worker for a follower's XML, SHAREDLIB_BUILD or MODEL_BUILD is
   launched only when the leader of its group has completed that phase: the
   leader is past it, or at it with a status that is no longer PEND. *)
C4_FollowerAfterLeader ==
    [][ \A f \in Followers :
          (Launches(f) /\ tests'[f][1] \in GatedPhases) =>
              \/ PhaseIdx(tests[build_leader[f]][1]) > PhaseIdx(tests'[f][1])
              \/ /\ tests[build_leader[f]][1] = tests'[f][1]
                 /\ tests[build_leader[f]][2] # TEST_PEND_STATUS ]_vars

\* C4's case: a follower's worker runs a gated phase
C4_Witness ==
    \E f \in Followers :
        /\ thread_pc[f] = "run"
        /\ tests[f] = << MODEL_BUILD_PHASE, TEST_PEND_STATUS >>
        /\ tests[build_leader[f]][1] = MODEL_BUILD_PHASE

(* C5, for a leader that has passed XML: in every run, fresh or
   use_existing, the group's shared executable path was written exactly once
   by the leader's XML phase before any follower of the group starts XML,
   SHAREDLIB_BUILD or MODEL_BUILD: whenever a follower's worker is alive in
   one of these phases the path is set and was written once. *)
C5_ExerootSetBeforeFollowers ==
    \A f \in Followers :
        ( /\ Alive(f)
          /\ tests[f][1] \in GatedPhases
          /\ GetTestStatus(build_leader[f], XML_PHASE) = TEST_PASS_STATUS ) =>
            /\ build_group_exeroots[build_leader[f]] = "set"
            /\ exeroot_writes[build_leader[f]] = 1

(* C6: at quiescence every reservation has been released, so
   self._procs_avail is back to self._proc_pool. *)
C6_AllReleasedAtQuiescence == Quiescent => procs_avail = proc_pool

(* C6, amended: a reservation is released when _wait_for_something_to_finish
   reaps its worker and at no other time; the workers still in the in-flight
   map when the producer leaves the loop are joined but not reaped, so at
   quiescence self._procs_avail is self._proc_pool less their reservations. *)
C6_ReleasedWhenReaped ==
    Quiescent => procs_avail = proc_pool - Reserved

\* C6's case: the run is over, reservations were released by reaping, and
\* the reservation of a joined worker is still debited
C6_Witness ==
    /\ main_pc = "done"
    /\ InFlight # {}
    /\ procs_avail < proc_pool
    /\ \E t \in Tests \ InFlight : tests[t][1] # TEST_START

(* C7, in fresh runs, once constructed: the producer loop always ends, with
   no test having work remaining: the scheduler never comes to a stop
   anywhere else, whichever phase a leader fails at. *)
C7_ProducerExits ==
    (~use_existing /\ main_pc # "ctor_failed" /\ ~ENABLED Next) =>
        /\ main_pc = "done"
        /\ \A t \in Tests : ~WorkRemains(t)

(* C8: once the producer loop has begun the scheduler never aborts, in a
   fresh run or under use_existing, whatever a phase costs. *)
C8_NeverAborts == main_pc # "aborted"

(* C9, in fresh runs: while the leader of a group is FAIL at a gated phase, a
   follower at that phase holds one core if it is in flight, ends the phase
   as FAIL and never goes on to a later phase. *)
C9_FollowerFailsWithLeader ==
    [][ \A f \in Followers :
          LET l == build_leader[f] IN
          ( /\ ~use_existing
            /\ tests[l][1] \in GatedPhases
            /\ tests[l][2] = TEST_FAIL_STATUS
            /\ tests[f][1] = tests[l][1] ) =>
              /\ f \in InFlight => threads_in_flight[f].procs = 1
              /\ tests'[f][1] = tests[f][1]
              /\ tests'[f][2] \in {TEST_PEND_STATUS, TEST_FAIL_STATUS} ]_vars

(* C10: FAIL is terminal, and so is the final active phase: the <<phase,
   status>> of a FAIL test never changes, the phase of a test at the final
   phase never changes, and for neither does the producer call
   _producer_indv_test_launch, start a worker, or a worker chain a phase. *)
C10_Terminal ==
    [][ \A t \in Tests :
          /\ tests[t][2] = TEST_FAIL_STATUS =>
                /\ tests'[t] = tests[t]
                /\ thread_pc'[t] = "run" => thread_pc[t] = "run"
          /\ tests[t][1] = phases[Len(phases)] =>
                /\ tests'[t][1] = tests[t][1]
                /\ thread_pc'[t] = "run" => thread_pc[t] = "run"
          /\ (tests[t][2] = TEST_FAIL_STATUS \/ tests[t][1] = phases[Len(phases)]) =>
                ~(cursor = t /\ Considered) ]_vars

\* C10's case: a test has failed while another test is still being scheduled
\* by the producer, and a test sits at the final phase with PEND
C10_Witness ==
    /\ main_pc = "loop"
    /\ \E t, u \in Tests :
          /\ tests[t][2] = TEST_FAIL_STATUS
          /\ tests[t][1] # phases[Len(phases)]
          /\ cursor = t
          /\ tests[u] = << RUN_PHASE, TEST_PEND_STATUS >>
          /\ thread_pc[u] = "none"

\* a TestStatus file in which every core phase has passed
AllPassed(t) == \A p \in Range(CORE_PHASES) : store[t][p] = TEST_PASS_STATUS

\* the constructor is done and run_tests has been entered
Constructed == main_pc \notin {"replay", "ctor_failed"}

(* C11: under use_existing (without force_rebuild), a test whose TestStatus
   file shows every core phase PASS comes out of the constructor's replay at
   the final phase with PASS, has no work remaining, and no worker is ever
   started for it. *)
C11_ResumeIdempotent ==
    [][ \A t \in Tests :
          ( /\ use_existing
            /\ ~args.force_rebuild
            /\ Constructed
            /\ AllPassed(t)
            /\ thread_pc[t] = "none" ) =>
              /\ tests[t] = << phases[Len(phases)], TEST_PASS_STATUS >>
              /\ ~WorkRemains(t)
              /\ thread_pc'[t] = "none" ]_vars

\* C11's case: the run over old test directories is over, one test was found
\* all passed and was left alone, another one had work that was done
C11_Witness ==
    /\ use_existing
    /\ ~args.force_rebuild
    /\ main_pc = "done"
    /\ \E t, u \in Tests :
          /\ AllPassed(t)
          /\ thread_pc[t] = "none"
          /\ t \notin InFlight
          /\ exeroot_writes[t] = 0
          /\ thread_pc[u] = "dead"

(* C12, for a test that leads its build group: under use_existing with
   force_rebuild, a test whose TestStatus file showed every phase PASS is
   launched for SHAREDLIB_BUILD and then for each
   later phase up to the final one: it is never taken back to CREATE_NEWCASE
   or XML, whose records stay PASS, and the scheduler does not stop while
   the test stands at a PASS short of the final phase. *)
C12_RebuildFromSharedlib ==
    \A t \in Tests :
        ( /\ use_existing
          /\ args.force_rebuild
          /\ Constructed
          /\ IsFirstTest(t)
          /\ store[t][SUBMIT_PHASE] = TEST_PASS_STATUS
          /\ tests[t][1] # RUN_PHASE ) =>
            /\ PhaseIdx(tests[t][1]) >= PhaseIdx(SETUP_PHASE)
            /\ store[t][CREATE_NEWCASE_PHASE] = TEST_PASS_STATUS
            /\ store[t][XML_PHASE] = TEST_PASS_STATUS
            /\ (~ENABLED Next) => tests[t][2] # TEST_PASS_STATUS

\* the producer is about to fail the RUN of the test at cursor for asking
\* for more cores than the whole pool
RunExceedsPool ==
    /\ main_pc = "loop"
    /\ cursor \notin InFlight
    /\ Cardinality(InFlight) < parallel_jobs
    /\ RUN_PHASE \in Range(phases)
    /\ tests[cursor] = << MODEL_BUILD_PHASE, TEST_PASS_STATUS >>
    /\ no_batch
    /\ total_pes[cursor] > proc_pool

(* C13: when the next phase of a test is RUN and its cost exceeds the whole
   pool, the producer's step starts no worker: it writes SUBMIT=PASS and
   RUN=FAIL to the test's TestStatus file and takes the test to (RUN, PEND)
   and from there, in its next step, to (RUN, FAIL); self._procs_avail,
   the in-flight map and the other tests are left as they were, and the
   producer goes on with its loop. *)
C13_RunFailedAtOnce ==
    [][ /\ (RunExceedsPool /\ mainloc' # mainloc) =>
              /\ main_pc' = "failrun"
              /\ store' = [store EXCEPT
                             ![cursor] = [@ EXCEPT ![SUBMIT_PHASE] = TEST_PASS_STATUS,
                                                  ![RUN_PHASE] = TEST_FAIL_STATUS]]
              /\ tests' = [tests EXCEPT ![cursor] = << RUN_PHASE, TEST_PEND_STATUS >>]
              /\ UNCHANGED << procs_avail, threads_in_flight, thread_pc >>
        /\ (main_pc = "failrun" /\ mainloc' # mainloc) =>
              /\ main_pc' \in {"loop", "wait", "join"}
              /\ tests' = [tests EXCEPT ![cursor] = << RUN_PHASE, TEST_FAIL_STATUS >>]
              /\ UNCHANGED << procs_avail, threads_in_flight, thread_pc, store >>
      ]_vars

\* C13's case: a test's RUN was failed by the producer, and a worker was
\* started for another test afterwards
C13_Witness ==
    /\ no_batch
    /\ \E t, u \in Tests :
          /\ total_pes[t] > proc_pool
          /\ tests[t] = << RUN_PHASE, TEST_FAIL_STATUS >>
          /\ store[t][SUBMIT_PHASE] = TEST_PASS_STATUS
          /\ store[t][RUN_PHASE] = TEST_FAIL_STATUS
          /\ thread_pc[t] = "none"
          /\ thread_pc[u] = "run"
          /\ tests[u][1] = RUN_PHASE

\* the worker of test t has finished MODEL_BUILD with success and is at the
\* end of _consumer
BuiltOk(t) ==
    /\ thread_pc[t] = "tail"
    /\ tests[t] = << MODEL_BUILD_PHASE, TEST_PASS_STATUS >>

(* C14: when the MODEL_BUILD worker of a test, leader or follower, has
   succeeded, batch is enabled and RUN is an active phase, the worker's next
   step takes the test to (RUN, PEND) and goes on in the same thread with
   the RUN phase, the in-flight map and self._procs_avail staying as they
   are; such a worker never ends with the test at (MODEL_BUILD, PASS). A
   worker goes on past the end of _consumer only in that case: never when
   batch is disabled or MODEL_BUILD failed. With batch enabled the producer
   starts a thread for RUN only in a resumed run, and then never for a
   follower whose MODEL_BUILD record this run wrote. *)
C14_ChainsIntoRun ==
    [][ \A t \in Tests :
          /\ (BuiltOk(t) /\ ~no_batch /\ RUN_PHASE \in Range(phases)
                 /\ thread_pc'[t] # "tail") =>
                /\ tests'[t] = << RUN_PHASE, TEST_PEND_STATUS >>
                /\ thread_pc'[t] = "run"
                /\ UNCHANGED << threads_in_flight, procs_avail >>
          /\ (thread_pc[t] = "tail" /\ thread_pc'[t] = "run") =>
                /\ BuiltOk(t)
                /\ ~no_batch
                /\ RUN_PHASE \in Range(phases)
          /\ (Alive(t) /\ thread_pc'[t] = "dead" /\ ~no_batch
                 /\ RUN_PHASE \in Range(phases)) =>
                tests'[t] # << MODEL_BUILD_PHASE, TEST_PASS_STATUS >>
          /\ (Launches(t) /\ tests'[t][1] = RUN_PHASE /\ ~no_batch) =>
                /\ use_existing
                /\ << t, MODEL_BUILD_PHASE >> \notin status_writes
      ]_vars

\* C14's case: on a batch system the worker that was launched for MODEL_BUILD
\* has chained into RUN and has run it, on the reservation of MODEL_BUILD
C14_Witness ==
    /\ ~no_batch
    /\ \E t, u \in Tests :
          /\ IsFirstTest(t) /\ build_leader[u] = t /\ u # t
          /\ tests[t] = << RUN_PHASE, TEST_PEND_STATUS >>
          /\ thread_pc[t] = "none"
          /\ threads_in_flight[u].phase = MODEL_BUILD_PHASE
          /\ tests[u] = << RUN_PHASE, TEST_PEND_STATUS >>
          /\ thread_pc[u] = "post_ok"

(* C15: during a run the scheduler writes TestStatus records only for
   CREATE_NEWCASE and XML of any test and for SHAREDLIB_BUILD and MODEL_BUILD
   of followers. *)
C15_OnlyOwnedWritten ==
    \A w \in status_writes :
        \/ w[2] \in {CREATE_NEWCASE_PHASE, XML_PHASE}
        \/ ~IsFirstTest(w[1]) /\ w[2] \in {SHAREDLIB_BUILD_PHASE, MODEL_BUILD_PHASE}

(* C15, amended: every step in which the scheduler writes TestStatus records
   is one of these. (1) The end of _consumer for CREATE_NEWCASE or XML of
   any test or SHAREDLIB_BUILD or MODEL_BUILD of a follower: the one record
   written is the one of the phase the worker ran, with the PASS or FAIL
   status the scheduler computed for it. (2) The producer failing a RUN that
   asks for more than the pool: SUBMIT=PASS and RUN=FAIL. (3) The RUN of a
   test with the B opt: SUBMIT=PASS and RUN=PASS. (4) A SETUP under
   single_exe or a leader's SHAREDLIB_BUILD that raise: SETUP=FAIL. The
   scheduler writes no other record. *)
C15_WrittenRecords ==
    [][ \A t \in Tests :
          LET written == { p \in Range(CORE_PHASES) : << t, p >> \in status_writes' \ status_writes }
          IN  \/ written = {}
              \/ /\ thread_pc[t] = "tail"
                  /\ written = { tests[t][1] }
                  /\ \/ tests[t][1] \in {CREATE_NEWCASE_PHASE, XML_PHASE}
                     \/ /\ ~IsFirstTest(t)
                        /\ tests[t][1] \in {SHAREDLIB_BUILD_PHASE, MODEL_BUILD_PHASE}
                  /\ tests[t][2] \in {TEST_PASS_STATUS, TEST_FAIL_STATUS}
                  /\ store'[t][tests[t][1]] = tests[t][2]
              \/ /\ RunExceedsPool /\ t = cursor
                  /\ written \subseteq {SUBMIT_PHASE, RUN_PHASE}
                  /\ store'[t][SUBMIT_PHASE] = TEST_PASS_STATUS
                  /\ store'[t][RUN_PHASE] = TEST_FAIL_STATUS
              \/ /\ thread_pc[t] = "run" /\ tests[t][1] = RUN_PHASE /\ t \in b_tests
                  /\ written \subseteq {SUBMIT_PHASE, RUN_PHASE}
                  /\ store'[t][SUBMIT_PHASE] = TEST_PASS_STATUS
                  /\ store'[t][RUN_PHASE] = TEST_PASS_STATUS
              \/ /\ thread_pc[t] = "run"
                  /\ \/ single_exe /\ tests[t][1] = SETUP_PHASE
                     \/ IsFirstTest(t) /\ tests[t][1] = SHAREDLIB_BUILD_PHASE
                  /\ thread_pc'[t] = "post_fail"
                  /\ written = {SETUP_PHASE}
                  /\ store'[t][SETUP_PHASE] = TEST_FAIL_STATUS
      ]_vars

\* C15's case: the scheduler has written a follower's MODEL_BUILD record at
\* the end of _consumer, and the SUBMIT and RUN records of a test whose RUN
\* the producer failed
C15_Witness ==
    \E t, u \in Tests :
        /\ ~IsFirstTest(u)
        /\ << u, MODEL_BUILD_PHASE >> \in status_writes
        /\ store[u][MODEL_BUILD_PHASE] = TEST_PASS_STATUS
        /\ << t, XML_PHASE >> \in status_writes
        /\ << t, SUBMIT_PHASE >> \in status_writes
        /\ tests[t] = << RUN_PHASE, TEST_FAIL_STATUS >>

(* C16: for every combination of the flags no_setup, no_build,
   namelists_only and no_run, self._phases is PHASES, in order, without
   SETUP iff no_setup, without SHAREDLIB_BUILD and MODEL_BUILD iff no_build
   or no_setup or namelists_only, and without RUN iff no_run. *)
C16_PrunedPhases ==
    phases = SelectSeq(PHASES,
                 LAMBDA p :
                    /\ p = SETUP_PHASE => ~args.no_setup
                    /\ p \in {SHAREDLIB_BUILD_PHASE, MODEL_BUILD_PHASE} =>
                          ~(args.no_build \/ args.no_setup \/ args.namelists_only)
                    /\ p = RUN_PHASE => ~args.no_run)

(* C16, amended: for every combination of the flags, self._phases is PHASES,
   in order, without SETUP iff no_setup, without SHAREDLIB_BUILD and
   MODEL_BUILD iff no_build or no_setup or namelists_only, and without RUN
   iff no_run or no_build or no_setup or namelists_only. *)
C16_PrunedPhasesRunNeedsBuild ==
    phases = SelectSeq(PHASES,
                 LAMBDA p :
                    /\ p = SETUP_PHASE => ~args.no_setup
                    /\ p \in {SHAREDLIB_BUILD_PHASE, MODEL_BUILD_PHASE} =>
                          ~(args.no_build \/ args.no_setup \/ args.namelists_only)
                    /\ p = RUN_PHASE =>
                          ~(args.no_run \/ args.no_build \/ args.no_setup
                              \/ args.namelists_only))

\* C16's case: a run with no_build and without no_run has ended with every
\* test through SETUP, its last phase
C16_Witness ==
    /\ args.no_build /\ ~args.no_run /\ ~args.no_setup
    /\ main_pc = "done"
    /\ phases[Len(phases)] = SETUP_PHASE
    /\ \A t \in Tests : tests[t] = << SETUP_PHASE, TEST_PASS_STATUS >>

(* C17: a worker whose phase routine raised still has its reservation
   released: when the producer has returned, no test that failed is left
   with an entry, and so a reservation, in the in-flight map. *)
C17_FailedWorkerReleased ==
    main_pc = "done" =>
        \A t \in Tests :
            tests[t][2] = TEST_FAIL_STATUS => threads_in_flight[t] = NoThread

(* C17, amended: when a phase routine has raised (or returned failure) in
   the worker of a test, the worker's next step takes the test to
   (phase, FAIL) and leaves the other tests as they were; the step after
   that ends the worker, again without touching the other tests. The
   worker's reservation is released as that of any finished worker is:
   when _wait_for_something_to_finish next runs, it removes the worker from
   the in-flight map and gives its cores back to self._procs_avail; a worker
   that finishes after the producer's last wait is joined and keeps its
   entry. *)
C17_ExceptionBecomesFail ==
    [][ \A t \in Tests :
          /\ (thread_pc[t] = "post_fail" /\ thread_pc'[t] # "post_fail") =>
                /\ tests' = [tests EXCEPT ![t] = << tests[t][1], TEST_FAIL_STATUS >>]
                /\ thread_pc'[t] = "tail"
          /\ (thread_pc[t] = "tail" /\ tests[t][2] = TEST_FAIL_STATUS
                 /\ thread_pc'[t] # "tail") =>
                /\ thread_pc'[t] = "dead"
                /\ tests' = tests
          /\ (thread_pc[t] = "dead" /\ tests[t][2] = TEST_FAIL_STATUS
                 /\ main_pc = "wait" /\ mainloc' # mainloc) =>
                /\ threads_in_flight'[t] = NoThread
                /\ thread_pc'[t] = "none"
                /\ procs_avail' >= procs_avail + threads_in_flight[t].procs
                /\ tests' = tests
      ]_vars

\* C17's case: create_newcase raised for a test with the N opt, the test is
\* at (CREATE_NEWCASE, FAIL), its worker is gone and its cores are back,
\* and the test that went through its RUN before is where it was
C17_Witness ==
    \E t, u \in Tests :
        /\ t \in nc_tests
        /\ tests[t] = << CREATE_NEWCASE_PHASE, TEST_FAIL_STATUS >>
        /\ thread_pc[t] = "none"
        /\ threads_in_flight[t] = NoThread
        /\ procs_avail = proc_pool
        /\ tests[u][1] = RUN_PHASE
        /\ tests[u][2] # TEST_FAIL_STATUS

\* no phase of any test has been launched, replayed or recorded
NothingLaunched ==
    /\ \A t \in Tests :
          /\ tests[t] = << TEST_START, TEST_PASS_STATUS >>
          /\ thread_pc[t] = "none"
          /\ threads_in_flight[t] = NoThread
    /\ status_writes = {}

(* C18: each user or configuration error (a test name that combines the N
   and C opts or has the N opt with the nuopc driver, a queue requested
   without a batch system, a missing baseline comparison directory) is
   fatal at construction: the constructor raises, before the producer loop
   starts and before any phase of any test is launched. *)
C18_FatalAtConstruction ==
    ( \/ nc_tests # {}
      \/ no_batch /\ args.queue
      \/ args.baseline_cmp_missing ) =>
        main_pc = "ctor_failed" /\ NothingLaunched

(* C18, amended: a queue requested without a batch system and a missing
   baseline comparison directory are fatal at construction: the constructor
   raises, before the producer loop starts and before any phase of any test
   is launched. A test name that combines the N and C opts or has the N opt
   with the nuopc driver is not: in a fresh run the scheduler is constructed
   with it, and the error is raised in the test's CREATE_NEWCASE worker, so
   that this test never gets past CREATE_NEWCASE and never passes it. *)
C18_ErrorsAtConstructionOrNewcase ==
    /\ ((no_batch /\ args.queue) \/ args.baseline_cmp_missing) =>
          main_pc = "ctor_failed" /\ NothingLaunched
    /\ (~use_existing /\ ~(no_batch /\ args.queue) /\ ~args.baseline_cmp_missing) =>
          /\ main_pc # "ctor_failed"
          /\ \A t \in nc_tests :
                /\ tests[t][1] \in {TEST_START, CREATE_NEWCASE_PHASE}
                /\ tests[t] # << CREATE_NEWCASE_PHASE, TEST_PASS_STATUS >>
                /\ store[t][CREATE_NEWCASE_PHASE] # TEST_PASS_STATUS

\* C18's case: run_tests has returned from a run in which a test with the
\* N and C opts failed its CREATE_NEWCASE, after another test had been run
C18_Witness ==
    /\ main_pc = "done"
    /\ \E t, u \in Tests :
          /\ t \in nc_tests
          /\ tests[t] = << CREATE_NEWCASE_PHASE, TEST_FAIL_STATUS >>
          /\ store[t][CREATE_NEWCASE_PHASE] = TEST_FAIL_STATUS
          /\ u \notin nc_tests
          /\ tests[u][1] = RUN_PHASE

(* C19: in one execution of _shell_cmd_for_phase the command is invoked at
   most twice: a failed invocation with "bad interpreter" in its output is
   followed by one retry, and after the second invocation the runner has
   returned, whatever the outcomes of the command are. *)
C19_AtMostOneRetry ==
    /\ invocations <= 2
    /\ invocations = 2 => cmd_result \in {"True", "False"}

(* C20: for a test with the B opt, the RUN phase calls no command: the step
   of its phase method, in a worker the producer launched for RUN or in one
   that chained into RUN from MODEL_BUILD, always returns success and
   changes the TestStatus files in nothing but the test's SUBMIT and RUN
   records, both written as PASS by the scheduler. *)
C20_BuildOnlyRunSkipped ==
    [][ \A t \in b_tests :
          (thread_pc[t] = "run" /\ tests[t][1] = RUN_PHASE /\ thread_pc'[t] # "run") =>
              /\ thread_pc'[t] = "post_ok"
              /\ store' = [store EXCEPT
                             ![t] = [@ EXCEPT ![SUBMIT_PHASE] = TEST_PASS_STATUS,
                                              ![RUN_PHASE] = TEST_PASS_STATUS]]
              /\ status_writes' =
                    status_writes \cup { << t, SUBMIT_PHASE >>, << t, RUN_PHASE >> }
              /\ threads_in_flight[t].phase \in {RUN_PHASE, MODEL_BUILD_PHASE}
      ]_vars

\* C20's case: the RUN of a test with the B opt, chained from its
\* MODEL_BUILD, has returned and left SUBMIT and RUN as PASS
C20_Witness ==
    \E t \in b_tests :
        /\ threads_in_flight[t].phase = MODEL_BUILD_PHASE
        /\ tests[t][1] = RUN_PHASE
        /\ thread_pc[t] = "post_ok"
        /\ store[t][SUBMIT_PHASE] = TEST_PASS_STATUS
        /\ store[t][RUN_PHASE] = TEST_PASS_STATUS
        /\ << t, RUN_PHASE >> \in status_writes

(* C21: the translation for force_procs and force_threads is a function of
   each name on its own, whatever the other names of the list and their
   order: the first P opt of the name becomes P<force_procs, or the old
   procs>[x<force_threads, or the old threads>], and a name without a P opt
   gets P<force_procs, or M when force_procs is unset>[x<force_threads>]
   appended. *)
C21_TranslatedNameByName ==
    LET procs == force_args.force_procs
        thrds == force_args.force_threads
        Opt(p, t) == IF t = Unset THEN << "P", p >> ELSE << "P", p, "x", t >>
        OldProcs(opt) == opt[2]
        OldThrds(opt) == IF Len(opt) = 4 THEN opt[4] ELSE Unset
        HasP(name) == \E i \in 2..Len(name) : name[i][1] = "P"
        FirstP(name) == CHOOSE i \in 2..Len(name) :
                            /\ name[i][1] = "P"
                            /\ \A j \in 2..(i - 1) : name[j][1] # "P"
        Rewritten(name) ==
            IF HasP(name)
            THEN [name EXCEPT
                    ![FirstP(name)] =
                        Opt(IF procs # Unset THEN procs ELSE OldProcs(@),
                            IF thrds # Unset THEN thrds ELSE OldThrds(@))]
            ELSE Append(name, Opt(IF procs # Unset THEN procs ELSE "M", thrds))
    IN  \A i \in 1..Len(new_test_names) :
            new_test_names[i] = Rewritten(test_names[i])

\* the test at cursor is one the producer can launch now: it has work left,
\* is not in flight, a slot is free, and its next phase is eligible and
\* fits both the pool and the free cores
LaunchableAtCursor ==
    /\ Considered
    /\ tests[cursor][2] # TEST_PEND_STATUS
    /\ CanLaunch(GetProcsNeeded(cursor, NextPhase(cursor)))

(* C22: within one iteration of the producer's while loop the tests are
   considered in the insertion order of self._tests: the for loop starts at
   the first test and steps from a test to the next one only; a worker is
   started only for the test the for loop is at, and when that test can be
   launched the for loop does not pass it over. So of two tests that can be
   launched in the same iteration, with cores or slots for one only, the
   earlier one is launched. *)
C22_InsertionOrder ==
    [][ /\ (main_pc \in {"loop", "failrun"} /\ mainloc' # mainloc) =>
              \/ cursor' = cursor + 1 /\ main_pc' = "loop"
              \/ cursor' = 1 /\ main_pc' \in {"loop", "wait", "join"}
              \/ cursor' = cursor /\ main_pc' \in {"failrun", "aborted"}
        /\ (main_pc = "wait" /\ main_pc' = "loop") => cursor' = 1
        /\ \A t \in Tests :
              Launches(t) => main_pc = "loop" /\ t = cursor
        /\ (LaunchableAtCursor /\ mainloc' # mainloc) => Launches(cursor)
      ]_vars

\* C22's case: with one slot and both tests ready for CREATE_NEWCASE, the
\* first test has been launched and the second has not
C22_Witness ==
    /\ parallel_jobs = 1
    /\ NumTests > 1
    /\ tests[1] = << CREATE_NEWCASE_PHASE, TEST_PEND_STATUS >>
    /\ thread_pc[1] = "run"
    /\ \A t \in Tests \ {1} :
          tests[t] = << TEST_START, TEST_PASS_STATUS >> /\ thread_pc[t] = "none"
    /\ main_pc = "wait"

(* C23: when an expect fails in the producer's loop, the producer joins
   every worker in flight before the error leaves it: once _producer has
   raised, no worker thread is running. *)
C23_JoinedBeforeRaise ==
    main_pc = "aborted" => \A t \in Tests : ~Alive(t)

(* C24: whenever the producer is in _wait_for_something_to_finish, at least
   one worker is in the in-flight map: it never waits on an empty map while
   some test still has work remaining. *)
C24_WaitsForAWorker ==
    main_pc = "wait" => InFlight # {}

(* C25: whenever the producer computes the cost of a leader's MODEL_BUILD
   (the for loop is at a leader that passed SHAREDLIB_BUILD and is not in
   flight, and a slot is free), the cost is at most self._proc_pool, in
   fresh runs and in use_existing runs alike. *)
C25_BuildCostWithinPool ==
    ( /\ Considered
      /\ IsFirstTest(cursor)
      /\ tests[cursor] = << SHAREDLIB_BUILD_PHASE, TEST_PASS_STATUS >> ) =>
        GetProcsNeeded(cursor, MODEL_BUILD_PHASE) <= proc_pool

(* C26, in a resume without force_rebuild: the replay of a test's
   TestStatus file walks the core-phase records
   in phase order, takes the in-memory state through every PASS record
   (SUBMIT records make no transition) and stops at the first record that
   is PEND or FAIL, where a FAIL becomes PEND in the file; so when the
   replay is over the test is at the last PASS record before that stop, no
   FAIL is left up to the stop, and the phase the producer launches first
   for the test, the one after its in-memory phase, is the phase of the
   record the replay stopped at. *)
C26_ReplayStopsAtFirstNonPass ==
    [][ (~args.force_rebuild /\ main_pc = "replay" /\ main_pc' = "loop") =>
          \A t \in Tests :
            LET rec(i) == store'[t][CORE_PHASES[i]]
                nonpass == { i \in 1..Len(CORE_PHASES) :
                               rec(i) \in {TEST_PEND_STATUS, TEST_FAIL_STATUS} }
                stop == IF nonpass = {} THEN Len(CORE_PHASES) + 1
                        ELSE CHOOSE i \in nonpass : \A j \in nonpass : i <= j
                passed == { i \in 1..(stop - 1) :
                              rec(i) = TEST_PASS_STATUS /\ CORE_PHASES[i] # SUBMIT_PHASE }
                last == CHOOSE i \in passed : \A j \in passed : j <= i
            IN  /\ tests'[t] = IF passed = {} THEN << TEST_START, TEST_PASS_STATUS >>
                                ELSE << CORE_PHASES[last], TEST_PASS_STATUS >>
                /\ \A i \in nonpass : i <= stop => rec(i) = TEST_PEND_STATUS
                /\ nonpass # {} =>
                      phases[PhaseIdx(tests'[t][1]) + 1] = CORE_PHASES[stop]
      ]_vars

(* C26, amended: the replay of a test's TestStatus file walks the core-phase
   records in phase order, takes the in-memory state through every PASS
   record (SUBMIT records make no transition) and stops at the first record
   that is PEND or FAIL, where a FAIL becomes PEND in the file and nothing
   else of the file is changed (but for the SHAREDLIB_BUILD record set to
   PEND beforehand under force_rebuild). When the replay is over the test is
   at the last PASS record before the stop, and the records after the stop
   have had no effect. The in-memory state of a test without a worker then
   changes only when the producer launches the test, or fails its RUN, and
   a launch is always of the phase after the in-memory phase: the first
   phase launched for the test is the phase of the record the replay
   stopped at when that record follows a PASS record or is the first one,
   with RUN standing for a SUBMIT record. *)
C26_ReplayedToLastPass ==
    [][ /\ (main_pc = "replay" /\ main_pc' = "loop") =>
              \A t \in Tests :
                LET rec(i) == store'[t][CORE_PHASES[i]]
                    nonpass == { i \in 1..Len(CORE_PHASES) :
                                   rec(i) \in {TEST_PEND_STATUS, TEST_FAIL_STATUS} }
                    stop == IF nonpass = {} THEN Len(CORE_PHASES) + 1
                            ELSE CHOOSE i \in nonpass : \A j \in nonpass : i <= j
                    passed == { i \in 1..(stop - 1) :
                                  rec(i) = TEST_PASS_STATUS
                                  /\ CORE_PHASES[i] # SUBMIT_PHASE }
                    last == CHOOSE i \in passed : \A j \in passed : j <= i
                IN  /\ tests'[t] = IF passed = {} THEN << TEST_START, TEST_PASS_STATUS >>
                                    ELSE << CORE_PHASES[last], TEST_PASS_STATUS >>
                    /\ \A i \in nonpass : i <= stop => rec(i) = TEST_PEND_STATUS
                    /\ (nonpass # {} /\ (stop = 1 \/ rec(stop - 1) = TEST_PASS_STATUS)) =>
                          phases[PhaseIdx(tests'[t][1]) + 1] =
                             IF CORE_PHASES[stop] = SUBMIT_PHASE THEN RUN_PHASE
                             ELSE CORE_PHASES[stop]
        /\ main_pc = "replay" =>
              \A t \in Tests, p \in Range(CORE_PHASES) :
                 store'[t][p] # store[t][p] =>
                    /\ t = cursor
                    /\ store'[t][p] = TEST_PEND_STATUS
                    /\ \/ /\ store[t][p] = TEST_FAIL_STATUS
                          /\ p = CORE_PHASES[replay_rec[1]]
                          /\ replay_rec'[1] = 1
                       \/ args.force_rebuild /\ p = SHAREDLIB_BUILD_PHASE
        /\ main_pc # "replay" =>
              \A t \in Tests :
                 /\ Launches(t) =>
                       tests'[t] = << phases[PhaseIdx(tests[t][1]) + 1], TEST_PEND_STATUS >>
                 /\ (thread_pc[t] = "none" /\ tests'[t] # tests[t]) =>
                       \/ Launches(t)
                       \/ t = cursor /\ tests'[t][1] = RUN_PHASE
                            /\ "failrun" \in {main_pc, main_pc'}
      ]_vars

\* C26's case: the replay is over for a file whose SHAREDLIB_BUILD record
\* was FAIL: the record is PEND now, the test is at (SETUP, PASS), and
\* SHAREDLIB_BUILD has been launched for it
C26_Witness ==
    /\ use_existing /\ ~args.force_rebuild
    /\ \E t \in Tests :
          /\ store[t][SETUP_PHASE] = TEST_PASS_STATUS
          /\ store[t][SHAREDLIB_BUILD_PHASE] = TEST_PEND_STATUS
          /\ tests[t] = << SHAREDLIB_BUILD_PHASE, TEST_PEND_STATUS >>
          /\ thread_pc[t] = "run"
          /\ status_writes = {}

(* C27: while the worker that was launched for MODEL_BUILD of a test
   executes the RUN it chained into on a batch system, the cores reserved
   for that worker in the in-flight map are the RUN core count, 1, and not
   the MODEL_BUILD cost of the launch. *)
C27_ChainedRunReservesRunCount ==
    \A t \in Tests :
        (/\ Alive(t)
         /\ tests[t][1] = RUN_PHASE
         /\ threads_in_flight[t] # NoThread
         /\ threads_in_flight[t].phase = MODEL_BUILD_PHASE) =>
            threads_in_flight[t].procs = GetProcsNeeded(t, RUN_PHASE)

(* C27, amended: while the worker that was launched for MODEL_BUILD of a
   test executes the RUN it chained into, the cores reserved for it in the
   in-flight map are still the MODEL_BUILD cost of the launch:
   self._model_build_cost for a leader, 1 for a follower. *)
C27_ChainedRunKeepsBuildCost ==
    \A t \in Tests :
        (/\ Alive(t)
         /\ tests[t][1] = RUN_PHASE
         /\ threads_in_flight[t] # NoThread
         /\ threads_in_flight[t].phase = MODEL_BUILD_PHASE) =>
            /\ ~no_batch
            /\ threads_in_flight[t].procs =
                   IF IsFirstTest(t) THEN model_build_cost ELSE 1

\* C27's case: a leader's worker is in the chained RUN, a phase of one core
\* on a batch system, and holds the cores of its MODEL_BUILD, more than one
C27_Witness ==
    \E t \in Tests :
        /\ IsFirstTest(t)
        /\ thread_pc[t] = "run"
        /\ tests[t] = << RUN_PHASE, TEST_PEND_STATUS >>
        /\ threads_in_flight[t].phase = MODEL_BUILD_PHASE
        /\ GetProcsNeeded(t, RUN_PHASE) = 1
        /\ threads_in_flight[t].procs = model_build_cost
        /\ model_build_cost > 1

(* C28: the cost _get_procs_needed computes for a test and the phase after
   the one the test is at (the phase the producer asks it for), and the
   cores a worker holds for the phase it was launched for, are: 1 for
   CREATE_NEWCASE, XML and SETUP; for a follower's XML, SHAREDLIB_BUILD or
   MODEL_BUILD 1 once the leader is not PEND at that phase and None while it
   is; 1 for a leader's SHAREDLIB_BUILD; self._model_build_cost for a
   leader's MODEL_BUILD; for RUN the case's TOTALPES without a batch system
   and 1 with one. *)
C28_CostTable ==
    \A t \in Tests :
        LET follower == ~IsFirstTest(t)
            leader_pends(p) ==
                GetTestStatus(build_leader[t], p) = TEST_PEND_STATUS
            cost(p) ==
                IF p = RUN_PHASE
                THEN IF no_batch THEN total_pes[t] ELSE 1
                ELSE IF p \in {CREATE_NEWCASE_PHASE, SETUP_PHASE} THEN 1
                ELSE IF follower THEN IF leader_pends(p) THEN None ELSE 1
                ELSE IF p = XML_PHASE THEN 1
                ELSE IF p = SHAREDLIB_BUILD_PHASE THEN 1
                ELSE model_build_cost
        IN  /\ WorkRemainsIgnoringStatus(tests[t]) =>
                  GetProcsNeeded(t, NextPhase(t)) = cost(NextPhase(t))
            /\ (t \in InFlight /\ tests[t][1] = threads_in_flight[t].phase) =>
                  threads_in_flight[t].procs =
                     IF tests[t][1] = SHAREDLIB_BUILD_PHASE THEN 1
                     ELSE cost(tests[t][1])

(* C28, amended: the same table, but a leader's SHAREDLIB_BUILD is None
   while the configuration serializes the sharedlib builds and some worker
   that was launched for SHAREDLIB_BUILD is in flight, and 1 otherwise. *)
C28_CostTableSerialized ==
    \A t \in Tests :
        LET follower == ~IsFirstTest(t)
            leader_pends(p) ==
                GetTestStatus(build_leader[t], p) = TEST_PEND_STATUS
            cost(p) ==
                IF p = RUN_PHASE
                THEN IF no_batch THEN total_pes[t] ELSE 1
                ELSE IF p \in {CREATE_NEWCASE_PHASE, SETUP_PHASE} THEN 1
                ELSE IF follower THEN IF leader_pends(p) THEN None ELSE 1
                ELSE IF p = XML_PHASE THEN 1
                ELSE IF p = SHAREDLIB_BUILD_PHASE THEN IF /\ serialize_sharedlib_builds
                        /\ \E u \in Tests :
                              /\ threads_in_flight[u] # NoThread
                              /\ threads_in_flight[u].phase = SHAREDLIB_BUILD_PHASE
                     THEN None
                     ELSE 1
                ELSE model_build_cost
        IN  /\ WorkRemainsIgnoringStatus(tests[t]) =>
                  GetProcsNeeded(t, NextPhase(t)) = cost(NextPhase(t))
            /\ (t \in InFlight /\ tests[t][1] = threads_in_flight[t].phase) =>
                  threads_in_flight[t].procs =
                     IF tests[t][1] = SHAREDLIB_BUILD_PHASE THEN 1
                     ELSE cost(tests[t][1])

\* C28's case: a leader's SHAREDLIB_BUILD holds one core, and the producer
\* is at another leader whose next phase is SHAREDLIB_BUILD, which is not
\* eligible meanwhile
C28_Witness ==
    /\ Considered
    /\ IsFirstTest(cursor)
    /\ tests[cursor] = << SETUP_PHASE, TEST_PASS_STATUS >>
    /\ GetProcsNeeded(cursor, NextPhase(cursor)) = None
    /\ \E t \in Tests :
          /\ IsFirstTest(t)
          /\ thread_pc[t] = "run"
          /\ threads_in_flight[t] = [phase |-> SHAREDLIB_BUILD_PHASE, procs |-> 1]

(* C29: when the configuration serializes the sharedlib builds, at most one
   worker that was launched for a leader's SHAREDLIB_BUILD is in flight at
   any time, whatever the build groups and the interleaving of the
   threads. *)
C29_OneSharedlibBuildAtATime ==
    serialize_sharedlib_builds =>
        \A t, u \in InFlight :
            (/\ IsFirstTest(t) /\ IsFirstTest(u)
             /\ threads_in_flight[t].phase = SHAREDLIB_BUILD_PHASE
             /\ threads_in_flight[u].phase = SHAREDLIB_BUILD_PHASE) => t = u

\* C29's case: with serialized builds and two worker slots, the worker of
\* one leader's SHAREDLIB_BUILD has been reaped and the SHAREDLIB_BUILD of
\* another leader, launched after it, is running
C29_Witness ==
    /\ serialize_sharedlib_builds
    /\ parallel_jobs > 1
    /\ \E t, u \in Tests :
          /\ t # u /\ IsFirstTest(t) /\ IsFirstTest(u)
          /\ tests[t] = << SHAREDLIB_BUILD_PHASE, TEST_PASS_STATUS >>
          /\ t \notin InFlight
          /\ threads_in_flight[u].phase = SHAREDLIB_BUILD_PHASE
          /\ thread_pc[u] = "run"

(* C30: when the phase routine of a worker has returned, the worker's next
   step takes its test to (phase, PASS) if the routine succeeded and to
   (phase, FAIL) if it failed, except that after a successful RUN on a
   batch system the test stays at (RUN, PEND); the other tests are left
   alone. So when the producer returns from a fresh run whose last phase is
   RUN, a test that failed nowhere is at (RUN, PASS) without a batch system
   and at (RUN, PEND) with one. *)
C30_WorkerResultBecomesStatus ==
    [][ /\ \A t \in Tests :
              (thread_pc[t] \in {"post_ok", "post_fail"}
                  /\ thread_pc'[t] # thread_pc[t]) =>
                 LET phase == tests[t][1]
                 IN  /\ tests[t] = << phase, TEST_PEND_STATUS >>
                     /\ tests' = [tests EXCEPT ![t] =
                           << phase,
                              IF thread_pc[t] = "post_fail" THEN TEST_FAIL_STATUS
                              ELSE IF phase = RUN_PHASE /\ ~no_batch
                                   THEN TEST_PEND_STATUS
                                   ELSE TEST_PASS_STATUS >>]
        /\ (main_pc' = "done" /\ ~use_existing
               /\ phases[Len(phases)] = RUN_PHASE) =>
              \A t \in Tests :
                 tests'[t][2] # TEST_FAIL_STATUS =>
                    tests'[t] = << RUN_PHASE,
                                   IF no_batch THEN TEST_PASS_STATUS
                                   ELSE TEST_PEND_STATUS >>
      ]_vars

\* C30's case: a fresh run without a batch system has ended and a test that
\* went through all its phases, RUN being the last, is at (RUN, PASS)
C30_Witness ==
    /\ no_batch /\ ~use_existing
    /\ main_pc = "done"
    /\ \E t \in Tests :
          /\ tests[t] = << RUN_PHASE, TEST_PASS_STATUS >>
          /\ << t, CREATE_NEWCASE_PHASE >> \in status_writes
          /\ << t, XML_PHASE >> \in status_writes

(* C31, in fresh runs: when the producer has returned, self._completed_tests
   is the number of tests that came to have no work remaining during the
   run, each counted once: the tests that failed, in a worker or in the
   producer itself, and those that reached the final phase. *)
C31_CompletedCountsEveryTest ==
    (main_pc = "done" /\ ~use_existing) =>
        completed_tests = Cardinality({ t \in Tests : ~WorkRemains(t) })

(* C32: a test never has two workers. A test has a worker thread exactly
   when it has an entry in threads_in_flight; the producer adds the entry,
   and starts the thread, only for a test that has neither; an entry is
   removed only when its thread has finished; a worker that chains a phase
   goes on in the thread it has. So the <<phase, status>> and the TestStatus
   file of a test whose worker is alive are changed by that worker's steps
   only. *)
C32_OneWorkerPerTest ==
    [][ \A t \in Tests :
          /\ (thread_pc[t] = "none") <=> (threads_in_flight[t] = NoThread)
          /\ threads_in_flight'[t] # threads_in_flight[t] =>
                \/ /\ threads_in_flight[t] = NoThread
                   /\ thread_pc[t] = "none"
                   /\ thread_pc'[t] = "run"
                   /\ main_pc = "loop" /\ cursor = t
                \/ /\ threads_in_flight'[t] = NoThread
                   /\ thread_pc[t] = "dead"
                   /\ thread_pc'[t] = "none"
                   /\ main_pc = "wait"
          /\ (thread_pc'[t] = "run" /\ thread_pc[t] # "run") =>
                \/ thread_pc[t] = "none" /\ threads_in_flight[t] = NoThread
                \/ thread_pc[t] = "tail" /\ UNCHANGED threads_in_flight
          /\ (Alive(t) /\ (tests'[t] # tests[t] \/ store'[t] # store[t])) =>
                /\ thread_pc'[t] # thread_pc[t]
                /\ UNCHANGED mainloc
      ]_vars

\* C32's case: a test is in its second phase, in the thread the producer
\* started for it after it had reaped the thread of the first phase, while
\* the worker of another test is alive too
C32_Witness ==
    \E t, u \in Tests :
        /\ t # u
        /\ thread_pc[t] = "run"
        /\ threads_in_flight[t].phase = XML_PHASE
        /\ tests[t] = << XML_PHASE, TEST_PEND_STATUS >>
        /\ << t, CREATE_NEWCASE_PHASE >> \in status_writes
        /\ Alive(u)

(* C33: a step of a worker leaves self._procs_avail, self._model_build_cost
   and self._build_group_exeroots as they are, and changes the <<phase,
   status>> and the TestStatus file of no test but its own. *)
C33_WorkersLeaveArbiterAlone ==
    [][ \A t \in Tests :
          (Alive(t) /\ thread_pc'[t] # thread_pc[t]) =>
             /\ UNCHANGED << procs_avail, model_build_cost, build_group_exeroots >>
             /\ \A u \in Tests \ {t} :
                   tests'[u] = tests[u] /\ store'[u] = store[u]
      ]_vars

(* C33, amended: a step of a worker leaves self._procs_avail and
   threads_in_flight as they are and changes the <<phase, status>> and the
   TestStatus file of no test but its own; besides these it changes only
   self._completed_tests and, when it is the _xml_phase of the worker,
   self._model_build_cost, which it lowers to self._proc_pool if it was
   above it, and, for a leader, the exeroot of the leader's own build group,
   which it sets from unset. No step of the producer changes
   self._model_build_cost or self._build_group_exeroots. *)
C33_WorkersChangeCostAndExerootInXml ==
    [][ /\ \A t \in Tests :
             (Alive(t) /\ thread_pc'[t] # thread_pc[t]) =>
                /\ UNCHANGED << procs_avail, threads_in_flight, mainloc, config >>
                /\ \A u \in Tests \ {t} :
                      /\ tests'[u] = tests[u]
                      /\ store'[u] = store[u]
                      /\ build_group_exeroots'[u] = build_group_exeroots[u]
                /\ build_group_exeroots'[t] # build_group_exeroots[t] =>
                      /\ thread_pc[t] = "run" /\ tests[t][1] = XML_PHASE
                      /\ IsFirstTest(t)
                      /\ build_group_exeroots[t] = "unset"
                /\ model_build_cost' # model_build_cost =>
                      /\ thread_pc[t] = "run" /\ tests[t][1] = XML_PHASE
                      /\ model_build_cost > proc_pool
                      /\ model_build_cost' = proc_pool
        /\ (model_build_cost' # model_build_cost
              \/ build_group_exeroots' # build_group_exeroots) =>
                /\ UNCHANGED mainloc
                /\ \E t \in Tests : Alive(t) /\ thread_pc'[t] # thread_pc[t]
      ]_vars

\* C33's case: a leader's worker has come out of _xml_phase with its
\* group's exeroot set and self._model_build_cost brought down to the pool,
\* and the producer has debited nothing but that worker's core meanwhile
C33_Witness ==
    \E t \in Tests :
        /\ IsFirstTest(t)
        /\ thread_pc[t] = "post_ok"
        /\ tests[t] = << XML_PHASE, TEST_PEND_STATUS >>
        /\ build_group_exeroots[t] = "set"
        /\ model_build_cost = proc_pool
        /\ InitialModelBuildCost(FALSE, 1) > proc_pool
        /\ exeroot_writes[t] = 1

(* C34: when the SHAREDLIB_BUILD phase of a leader has ended, it is PASS
   exactly when case.build --sharedlib-only succeeded (it left a PASS
   record for the phase) and case.cmpgen_namelists gave 0 or the
   tests-failed code (the scheduler did not write a SETUP record); after any
   other exit code SETUP is FAIL in the TestStatus file and the phase is
   FAIL, whatever the build left. *)
C34_SharedlibPassNeedsBuildAndNamelists ==
    \A t \in Tests :
        (/\ IsFirstTest(t)
         /\ tests[t][1] = SHAREDLIB_BUILD_PHASE
         /\ tests[t][2] # TEST_PEND_STATUS) =>
            LET built == store[t][SHAREDLIB_BUILD_PHASE] = TEST_PASS_STATUS
                fatal == << t, SETUP_PHASE >> \in status_writes
            IN  /\ (tests[t][2] = TEST_PASS_STATUS) <=> (built /\ ~fatal)
                /\ fatal =>
                      /\ store[t][SETUP_PHASE] = TEST_FAIL_STATUS
                      /\ tests[t][2] = TEST_FAIL_STATUS

\* C34's case: the sharedlib build of a leader succeeded, the namelist
\* comparison ended with a fatal code, and the phase is FAIL with SETUP
\* marked FAIL
C34_Witness ==
    \E t \in Tests :
        /\ IsFirstTest(t)
        /\ tests[t] = << SHAREDLIB_BUILD_PHASE, TEST_FAIL_STATUS >>
        /\ store[t][SHAREDLIB_BUILD_PHASE] = TEST_PASS_STATUS
        /\ store[t][SETUP_PHASE] = TEST_FAIL_STATUS
        /\ << t, SETUP_PHASE >> \in status_writes

(* C35: for every GMAKE_J >= 1 the self._model_build_cost the constructor
   assigns is min(16, floor(2 * GMAKE_J / 3) + 1) when
   Config.calculate_mode_build_cost is set, that is 16 from GMAKE_J = 23 on
   and below that the k with 3 * (k - 1) <= 2 * GMAKE_J < 3 * k, and it is 4
   otherwise; it always lies between 1 and 16. *)
C35_BuildCostFormula ==
    main_pc = "ctor_cost_set" =>
        /\ model_build_cost \in 1..16
        /\ ~calculate_mode_build_cost => model_build_cost = 4
        /\ calculate_mode_build_cost =>
              IF 2 * gmake_j >= 45
              THEN model_build_cost = 16
              ELSE /\ 3 * (model_build_cost - 1) <= 2 * gmake_j
                   /\ 2 * gmake_j < 3 * model_build_cost

\* C35's case: the cost was calculated for a GMAKE_J whose
\* floor(2 * GMAKE_J / 3) + 1 is above 16, and is 16
C35_Witness ==
    /\ main_pc = "ctor_cost_set"
    /\ calculate_mode_build_cost
    /\ ((gmake_j * 2) \div 3) + 1 > 16
    /\ model_build_cost = 16

(* C36: cores are conserved. In every state self._procs_avail plus the
   cores recorded in the entries of threads_in_flight is self._proc_pool:
   a launch debits what it records in the entry, and reaping a worker gives
   back what its entry records, whatever self._model_build_cost has become
   since; so self._procs_avail is never above self._proc_pool. *)
C36_CoresConserved ==
    /\ procs_avail + Reserved = proc_pool
    /\ procs_avail <= proc_pool
    /\ \A t \in Tests : threads_in_flight[t].procs >= 0

\* C36's case: the worker of a leader's MODEL_BUILD, launched at a build
\* cost of more than one core, has been reaped and its cores are back,
\* while the cores of another worker in flight are still debited
C36_Witness ==
    \E t, u \in Tests :
        /\ IsFirstTest(t)
        /\ tests[t] = << MODEL_BUILD_PHASE, TEST_PASS_STATUS >>
        /\ threads_in_flight[t] = NoThread
        /\ << t, CREATE_NEWCASE_PHASE >> \in status_writes
        /\ model_build_cost > 1
        /\ threads_in_flight[u] # NoThread
        /\ procs_avail = proc_pool - threads_in_flight[u].procs

(* C37: the expect at the head of _producer_indv_test_launch never fails.
   Once the replay is over, a test that has work remaining and no entry in
   threads_in_flight is not PEND, so the test the producer's for loop calls
   _producer_indv_test_launch for is not PEND; a test that a worker has
   chained from MODEL_BUILD into RUN is PEND at the final phase and has no
   work remaining. *)
C37_LaunchExpectHolds ==
    main_pc \in {"loop", "wait", "join", "done"} =>
        \A t \in Tests :
            /\ (WorkRemains(t) /\ threads_in_flight[t] = NoThread) =>
                  tests[t][2] # TEST_PEND_STATUS
            /\ (tests[t] = << RUN_PHASE, TEST_PEND_STATUS >>) => ~WorkRemains(t)

\* C37's case: the producer calls _producer_indv_test_launch for a test
\* that is PASS at an earlier phase, after the worker of another test has
\* chained into RUN, left its test at (RUN, PEND) and been reaped
C37_Witness ==
    /\ Considered
    /\ tests[cursor][2] = TEST_PASS_STATUS
    /\ \E u \in Tests \ {cursor} :
          /\ tests[u] = << RUN_PHASE, TEST_PEND_STATUS >>
          /\ threads_in_flight[u] = NoThread
          /\ ~no_batch /\ ~use_existing

---------------------------------------------------------------------------
\* C38: once _get_test_status(leader, P) has answered PASS or FAIL it answers
\* the same from then on, and a follower's _sharedlib_build_phase or
\* _model_build_phase finds the leader's status decided, as the producer did
\* when it launched the follower: the follower passes only if it is PASS
DecidedStatuses == { TEST_PASS_STATUS, TEST_FAIL_STATUS }

C38_LeaderStatusStable ==
    [][/\ \A l \in Tests :
             \/ tests'[l] = tests[l] /\ phases' = phases
             \/ \A i \in 1..Len(phases) :
                   GetTestStatus(l, phases[i]) \in DecidedStatuses
                       => GetTestStatus(l, phases[i])' = GetTestStatus(l, phases[i])
       /\ \A f \in Followers :
             /\ thread_pc[f] = "run"
             /\ thread_pc'[f] \in {"post_ok", "post_fail"}
             /\ tests[f][1] \in {SHAREDLIB_BUILD_PHASE, MODEL_BUILD_PHASE}
             => /\ GetTestStatus(build_leader[f], tests[f][1]) \in DecidedStatuses
                /\ thread_pc'[f] = "post_ok"
                     => GetTestStatus(build_leader[f], tests[f][1]) = TEST_PASS_STATUS
                /\ tests[f][1] = SHAREDLIB_BUILD_PHASE
                     => (thread_pc'[f] = "post_ok"
                           <=> GetTestStatus(build_leader[f], tests[f][1])
                                 = TEST_PASS_STATUS)]_vars

\* a follower is in its SHAREDLIB_BUILD while its leader, which passed that
\* phase before the follower was launched, has gone on to a later phase
C38_Witness ==
    \E f \in Followers :
        /\ thread_pc[f] \in {"post_ok", "post_fail"}
        /\ tests[f][1] = SHAREDLIB_BUILD_PHASE
        /\ PhaseIdx(tests[build_leader[f]][1]) > PhaseIdx(SHAREDLIB_BUILD_PHASE)
        /\ ~use_existing

---------------------------------------------------------------------------
(* Runs without executable sharing, under the scheduling the threads get:  *)
(* the main thread and every started worker thread keep being run          *)

\* every build group is a singleton: each test leads its own group
Singletons == \A t \in Tests : build_leader[t] = t

SingletonInit == Init /\ Singletons

\* the steps of the main thread: the replay of __init__ and _producer
MainThread ==
    \/ ReplayRecord
    \/ ReplayPass
    \/ ProducerSkip
    \/ ProducerBreak
    \/ ProducerLaunch
    \/ ProducerFailRun
    \/ ProducerFailRunDone
    \/ ProducerAbort
    \/ ProducerWait
    \/ ProducerJoin

\* the steps of the worker thread of one test (_consumer)
WorkerThread(t) == WorkerPhase(t) \/ WorkerUpdate(t) \/ WorkerTail(t)

SingletonSpec ==
    /\ SingletonInit
    /\ [][Next]_vars
    /\ WF_vars(MainThread)
    /\ \A t \in Tests : WF_vars(WorkerThread(t))

\* C39: without executable sharing the producer always returns, and then
\* every test is FAIL or at the final active phase (no work remains)
C39_SingletonRunsFinish ==
    <>(\/ main_pc = "ctor_failed"
       \/ main_pc = "done" /\ \A t \in Tests : ~WorkRemains(t))

---------------------------------------------------------------------------
\* C40: once _producer has returned normally no worker thread is running:
\* the threads still in flight when the while loop ended have been joined,
\* which is what the "Leftover threads?" expect of run_tests asks for
C40_NoLeftoverThreads ==
    main_pc = "done" => \A t \in Tests : thread_pc[t] \in {"none", "dead"}

\* the producer has returned and a thread it joined after the loop (never
\* reaped by _wait_for_something_to_finish) is still in the in-flight map
C40_Witness ==
    /\ main_pc = "done"
    /\ \E t \in InFlight : thread_pc[t] = "dead"

====
